---- MODULE Spec2Model ----
(***************************************************************************)
(* Gravitae: the frame-stepped simulation runner (useSimulationRunner /    *)
(* calculateAllFrames), its per-tick helpers (gravity, in/out gating,      *)
(* keyframe forcing, physics properties, body-type switching), the         *)
(* animation plan builder and the frame capture; and, around the runner,   *)
(* the panel's composition switch, timing refresh and playback.  Three     *)
(* utilities are specified on their own: body synthesis                    *)
(* (createMatterBody), decomposition (decomposeConcaveShape) and the merge *)
(* of a host snapshot (fetchLayerDataService).                             *)
(*                                                                         *)
(* Numbers.  The source computes with IEEE doubles; the model computes     *)
(* with exact rationals over the integers:                                 *)
(*   - times (seconds in the source) are integers in units of 1/TimeBase s *)
(*   - a velocity is <<nx, ny, d>> meaning (nx/d, ny/d) px per tick        *)
(*   - an angle is in degrees, i.e. in units of PI/180 rad, and an angular *)
(*     velocity is <<n, d>> meaning n/d of those units per tick            *)
(*   - a scale factor is in units of 1e-6 (ScaleUnit), a percentage p      *)
(*     being the factor p/100 = p * 10000 units                            *)
(*   - opacity is in percent                                               *)
(***************************************************************************)
EXTENDS Integers, Sequences, FiniteSets, TLC

\* ------------------------------------------------------------------------
\* Bounds of the model
\* ------------------------------------------------------------------------
\* Work-area durations are DurStep, 2*DurStep, ..., MaxDur*DurStep.
MaxDur == 4
\* Last-keyframe indices of the first layer's position series: -2..MaxLast.
MaxLast == 3

\* ------------------------------------------------------------------------
\* Program constants
\* ------------------------------------------------------------------------
SIMULATION_FPS == 50
SIMULATION_DELTA == 1000 \div SIMULATION_FPS

\* ------------------------------------------------------------------------
\* Units and arithmetic
\* ------------------------------------------------------------------------
\* One second is TimeBase units: a physics tick is 12 units, a frame at
\* 30, 50 and 60 fps is 20, 12 and 10 units.
TimeBase == 12 * SIMULATION_FPS
DurStep == TimeBase \div 30
None == [none |-> TRUE]

Max2(a, b) == IF a >= b THEN a ELSE b
Min2(a, b) == IF a <= b THEN a ELSE b

\* Math.round(p/q) for q > 0: halves round towards +Infinity.
MathRound(p, q) == (2 * p + q) \div (2 * q)
\* Math.ceil(p/q) for q > 0.
MathCeil(p, q) == 0 - ((0 - p) \div q)
\* Math.floor(p/q) for q > 0.
MathFloor(p, q) == p \div q

\* values[i] of a JavaScript array held as a TLA+ sequence (0-based index).
At(values, i) == values[i + 1]

\* ------------------------------------------------------------------------
\* State
\* ------------------------------------------------------------------------
VARIABLES
    compFramerate,      \* composition framerate (frames per second)
    workarea,           \* <<start, end>> of the work area, in time units
    compData,           \* [layers: layer id -> Layer], the host's data
    simulationStatus,   \* "idle" | "preparing" | "running" | "completed"
    propsCheckDoneRef,  \* the runner's build-the-plan-once guard
    animPlanRef,        \* the AnimationPlan, or None
    pc,                 \* calculateAllFrames: "none" | "loop" | "threw" | "done"
    physicsFrame,       \* the loop counter
    nextCompFrame,      \* the next composition frame to capture
    frames,             \* the local FrameData sequence of the loop
    frameDataRef,       \* the published FrameData sequence
    engine,             \* [timestamp, gravityIdx, steps, lastDelta]
    bodies,             \* engine.world.bodies: body id -> Body
    tickLog,            \* history: the steps of the last tick, in order
    tickInfo,           \* history: what the last tick did to each body
    frameMeta,          \* history: per captured frame, the tick that made it
    runButton,          \* handleRunButton: "idle" | "waiting" | "done"
    currentCompId,      \* the composition the host reports as active
    timingPending,      \* the composition switch awaits updateTimingInfo
    orphan,             \* a calculateAllFrames still executing after the
                        \* state it was started under has been replaced
    playback,           \* usePlayback's animation-frame loop
    synthesis,          \* a call of createMatterBody: layer and result
    decomposition,      \* a call of decomposeConcaveShape: input and result
    projectState        \* fetchLayerDataService: the compositions state

\* The state the host's events and the playback act on.
hostVars == <<currentCompId, timingPending, orphan, playback>>
\* The runner and the panel around it.
runnerVars == <<compFramerate, workarea, compData, simulationStatus,
                propsCheckDoneRef, animPlanRef, pc, physicsFrame,
                nextCompFrame, frames, frameDataRef, engine, bodies, tickLog,
                tickInfo, frameMeta, runButton, currentCompId, timingPending,
                orphan, playback>>
\* The utilities checked on their own: body synthesis, decomposition and
\* the merge of a host snapshot.
utilVars == <<synthesis, decomposition, projectState>>
vars == <<compFramerate, workarea, compData, simulationStatus,
          propsCheckDoneRef, animPlanRef, pc, physicsFrame, nextCompFrame,
          frames, frameDataRef, engine, bodies, tickLog, tickInfo, frameMeta,
          runButton, currentCompId, timingPending, orphan, playback,
          synthesis, decomposition, projectState>>

\* ------------------------------------------------------------------------
\* Host data (what aeft.ts hands over)
\* ------------------------------------------------------------------------
Layers == {1, 2}
FpsSet == {30, 50, 60}
DurSet == {d * DurStep : d \in 1..MaxDur}
\* Work-area starts and in/out points are frame-aligned at every framerate
\* of FpsSet (3 * DurStep is 3, 5 and 6 frames).
StartSet == {0, 3 * DurStep}

\* The number of samples the host takes over the work area.
totalFrames(fps, wa) == MathRound((wa[2] - wa[1]) * fps, TimeBase)

\* Authored samples: fixed, non-linear curves so that neighbouring samples
\* and their differences are all distinct.
PosSample(l, i) == <<i * i + 10 * l, 3 * i>>
PosPre(l) == <<10 * l - 4, 0 - 2>>
RotSample(l, i) == 5 * i * i + l
RotPre(l) == l - 7
ScaleSample(l, i) == <<100 + 10 * i, 100 + 20 * i>>
ScalePre(l) == <<90, 90>>
DensitySample(l, i) == 1 + i
\* friction, air friction and restitution samples, in units of 1e-6.
FrictionSample(l, i) == 200000 + 1000 * i
FrictionAirSample(l, i) == 30000 + 1000 * i
RestitutionSample(l, i) == 500000 + 1000 * i
\* bodyType: 1 = dynamic, 2 = static, sampled in tenths (an interpolated
\* value between two keyframes): 1.0, 1.4, 1.6, 2.0, 2.0, 1.0, ... The
\* rounded sample switches at frame 2 and back at frame 5.
BodyTypeSample(l, i) ==
    CASE i = 0 -> 10 [] i = 1 -> 14 [] i = 2 -> 16 [] i \in {3, 4} -> 20
      [] OTHER -> 10
\* The same curve for a layer whose bodyType starts at 2: 2.0, 1.6, 1.4,
\* 1.0, 1.0, 2.0, ...
BodyTypeCurve(start, l, i) ==
    IF start = 1 THEN BodyTypeSample(l, i) ELSE 30 - BodyTypeSample(l, i)
\* Math.round of a bodyType value held in tenths.
RoundBodyType(v) == MathRound(v, 10)

\* One raw animated property {preValue, values[], lastKeyFrame}.
RawSeries(pre, values, last, hold) ==
    [preValue |-> pre, values |-> values,
     lastKeyFrame |-> [frame |-> last, isHold |-> hold]]

\* Choices of lastKeyFrame for a property of a layer.
Key(last, hold) == [frame |-> last, isHold |-> hold]
PosKeys1 == {None} \cup {Key(k, h) : k \in (0 - 2)..MaxLast, h \in BOOLEAN}
RotKeys1 == {Key(0 - 1, FALSE), Key(1, FALSE), Key(2, TRUE)}
ScaleKeys1 == {Key(0 - 1, FALSE), Key(1, FALSE)}
\* The first layer has a position series, or a rotation series, or a scale
\* series, or all three.
Keys1 == {<<pk, None, None>> : pk \in PosKeys1}
         \cup {<<None, rk, None>> : rk \in RotKeys1}
         \cup {<<None, None, sk>> : sk \in ScaleKeys1}
         \cup {<<Key(1, FALSE), Key(1, FALSE), Key(1, FALSE)>>}
PosKeys2 == {None, Key(0, FALSE), Key(2, FALSE)}
\* The second layer's bodyType at the work-area start: dynamic or static.
StartTypes2 == {1, 2}
\* In/out points of the second layer, in time units (0 = not set).
InOutSet2 == {<<0, 0>>, <<3 * DurStep, 0>>, <<0, 3 * DurStep>>,
              <<3 * DurStep, 6 * DurStep>>, <<6 * DurStep, 0>>}

Series(key, pre, values) ==
    IF key = None THEN None
    ELSE RawSeries(pre, values, key.frame, key.isHold)

\* Layer 1: always visible; position, rotation and scale series as chosen.
Layer1(n, pk, rk, sk) ==
    LET P == [k \in 1..n |-> PosSample(1, k - 1)]
        R == [k \in 1..n |-> RotSample(1, k - 1)]
        S == [k \in 1..n |-> ScaleSample(1, k - 1)]
    IN [inOut |-> <<0, 0>>, isStatic |-> FALSE, bodyType |-> 1,
        layerPosition |-> <<0, 0>>, layerRotation |-> 0,
        layerScale |-> <<100, 100>>,
        animatedProperties |->
          [position |-> Series(pk, PosPre(1), P),
           rotation |-> Series(rk, RotPre(1), R),
           scale |-> Series(sk, ScalePre(1), S),
           anchorPoint |-> None, density |-> None, friction |-> None,
           frictionAir |-> None, restitution |-> None, bodyType |-> None]]

\* Layer 2: in/out points and start bodyType as chosen; a position series as
\* chosen, and when it has one also rotation, scale, bodyType and material
\* series (friction keyed at frame 0 only, air friction and restitution up
\* to frame 1).
Layer2(n, pk, io, bt) ==
    LET P == [k \in 1..n |-> PosSample(2, k - 1)]
        R == [k \in 1..n |-> RotSample(2, k - 1)]
        S == [k \in 1..n |-> ScaleSample(2, k - 1)]
        D == [k \in 1..n |-> DensitySample(2, k - 1)]
        B == [k \in 1..n |-> BodyTypeCurve(bt, 2, k - 1)]
        F == [k \in 1..n |-> FrictionSample(2, k - 1)]
        A == [k \in 1..n |-> FrictionAirSample(2, k - 1)]
        E == [k \in 1..n |-> RestitutionSample(2, k - 1)]
        first == IF pk = None THEN None ELSE Key(0, FALSE)
        second == IF pk = None THEN None ELSE Key(1, FALSE)
        all == IF pk = None THEN None ELSE Key(n - 1, FALSE)
    IN [inOut |-> io, isStatic |-> (bt = 2), bodyType |-> bt,
        layerPosition |-> <<5, 5>>, layerRotation |-> 0,
        layerScale |-> <<100, 100>>,
        animatedProperties |->
          [position |-> Series(pk, PosPre(2), P),
           rotation |-> Series(all, RotPre(2), R),
           scale |-> Series(all, ScalePre(2), S),
           anchorPoint |-> None,
           density |-> Series(all, 1, D),
           friction |-> Series(first, 190000, F),
           frictionAir |-> Series(second, 29000, A),
           restitution |-> Series(second, 490000, E),
           bodyType |-> Series(all, 10 * bt, B)]]

\* ------------------------------------------------------------------------
\* Animation plan (utils/animationPlan.ts)
\* ------------------------------------------------------------------------
\* A series with isHold (position, rotation) and one without (the others).
PlanSeriesHold(raw) ==
    [pre |-> raw.preValue, values |-> raw.values,
     last |-> raw.lastKeyFrame.frame, isHold |-> raw.lastKeyFrame.isHold]
PlanSeries(raw) ==
    [pre |-> raw.preValue, values |-> raw.values,
     last |-> raw.lastKeyFrame.frame]

\* typedAp.<prop>?.lastKeyFrame is truthy.
HasKey(raw) == raw # None /\ raw.lastKeyFrame # None

EmptyLayerPlan ==
    [position |-> None, rotation |-> None, scale |-> None,
     anchorPoint |-> None, density |-> None, friction |-> None,
     frictionAir |-> None, restitution |-> None, bodyType |-> None]

layerPlanOf_KeepsUnmarked(ap) ==
    [position |-> IF HasKey(ap.position)
                  THEN PlanSeriesHold(ap.position) ELSE None,
     rotation |-> IF HasKey(ap.rotation)
                  THEN PlanSeriesHold(ap.rotation) ELSE None,
     scale |-> IF HasKey(ap.scale) THEN PlanSeries(ap.scale) ELSE None,
     anchorPoint |-> IF HasKey(ap.anchorPoint)
                     THEN PlanSeries(ap.anchorPoint) ELSE None,
     density |-> IF ap.density = None THEN None
                 ELSE [pre |-> ap.density.preValue,
                       values |-> ap.density.values,
                       last |-> IF ap.density.lastKeyFrame = None
                                THEN 0 - 1
                                ELSE ap.density.lastKeyFrame.frame],
     friction |-> IF HasKey(ap.friction)
                  THEN PlanSeries(ap.friction) ELSE None,
     frictionAir |-> IF HasKey(ap.frictionAir)
                     THEN PlanSeries(ap.frictionAir) ELSE None,
     restitution |-> IF HasKey(ap.restitution)
                     THEN PlanSeries(ap.restitution) ELSE None,
     bodyType |-> IF HasKey(ap.bodyType)
                  THEN PlanSeries(ap.bodyType) ELSE None]

layerPlanOf(ap) ==
    [position |-> IF HasKey(ap.position)
                  THEN PlanSeriesHold(ap.position) ELSE None,
     rotation |-> IF HasKey(ap.rotation)
                  THEN PlanSeriesHold(ap.rotation) ELSE None,
     scale |-> IF HasKey(ap.scale) THEN PlanSeries(ap.scale) ELSE None,
     anchorPoint |-> IF HasKey(ap.anchorPoint)
                     THEN PlanSeries(ap.anchorPoint) ELSE None,
     density |-> IF HasKey(ap.density) THEN PlanSeries(ap.density) ELSE None,
     friction |-> IF HasKey(ap.friction)
                  THEN PlanSeries(ap.friction) ELSE None,
     frictionAir |-> IF HasKey(ap.frictionAir)
                     THEN PlanSeries(ap.frictionAir) ELSE None,
     restitution |-> IF HasKey(ap.restitution)
                     THEN PlanSeries(ap.restitution) ELSE None,
     bodyType |-> IF HasKey(ap.bodyType)
                  THEN PlanSeries(ap.bodyType) ELSE None]

RECURSIVE MaxOver(_, _, _)
\* Math.max folded over a set, starting from acc.
MaxOver(S, f, acc) ==
    IF S = {} THEN acc
    ELSE LET x == CHOOSE y \in S : TRUE
         IN MaxOver(S \ {x}, f, Max2(acc, f[x]))

buildAnimationPlan_GatesOnRotation(data) ==
    IF data = None THEN [physicsStartFrame |-> 0 - 1, layers |-> <<>>]
    ELSE
      LET compLayers == data.layers
          withAp == {l \in DOMAIN compLayers :
                        compLayers[l].animatedProperties # None}
          lp == [l \in withAp |-> layerPlanOf(compLayers[l].animatedProperties)]
          kept == {l \in withAp : lp[l] # EmptyLayerPlan}
          withPos == {l \in withAp : lp[l].position # None}
          lastOf == [l \in withPos |-> lp[l].position.last]
          withRot == {l \in withAp : lp[l].rotation # None}
          lastRot == [l \in withRot |-> lp[l].rotation.last]
      IN [physicsStartFrame |->
             MaxOver(withRot, lastRot, MaxOver(withPos, lastOf, 0 - 1)),
          layers |-> [l \in kept |-> lp[l]]]

buildAnimationPlan(data) ==
    IF data = None THEN [physicsStartFrame |-> 0 - 1, layers |-> <<>>]
    ELSE
      LET compLayers == data.layers
          withAp == {l \in DOMAIN compLayers :
                        compLayers[l].animatedProperties # None}
          lp == [l \in withAp |-> layerPlanOf(compLayers[l].animatedProperties)]
          kept == {l \in withAp : lp[l] # EmptyLayerPlan}
          withPos == {l \in withAp : lp[l].position # None}
          lastOf == [l \in withPos |-> lp[l].position.last]
      IN [physicsStartFrame |-> MaxOver(withPos, lastOf, 0 - 1),
          layers |-> [l \in kept |-> lp[l]]]

\* plan.layers[layerId]?.<prop> : an absent layer has no series.
planLayer(plan, layerId) ==
    IF layerId \in DOMAIN plan.layers THEN plan.layers[layerId]
    ELSE EmptyLayerPlan

\* ------------------------------------------------------------------------
\* Bodies and the engine calls the helpers make on them
\* ------------------------------------------------------------------------
\* A percentage p is the factor p * ScaleUnit in units of 1e-6.
ScaleUnit == 100 * 100
Infinity == 0 - 1
ZeroVelocity == <<0, 0, 1>>
ZeroAngularVelocity == <<0, 1>>
GREY == "#545454"

\* Sleeping.set: falling asleep also stops the body.
SleepingSet(b, isSleeping) ==
    IF isSleeping
    THEN [b EXCEPT !.isSleeping = TRUE, !.velocity = ZeroVelocity,
                   !.angularVelocity = ZeroAngularVelocity]
    ELSE [b EXCEPT !.isSleeping = FALSE]

\* Body.setPosition keeps the velocity; the integration count restarts.
setPosition(b, xy) == [b EXCEPT !.position = xy, !.integrated = 0]
setVelocity(b, v) == [b EXCEPT !.velocity = v]
setAngle(b, deg) == [b EXCEPT !.angle = deg]
setAngularVelocity(b, w) == [b EXCEPT !.angularVelocity = w]
\* Body.setDensity: mass follows density (unit area).
setDensity(b, d) == [b EXCEPT !.density = d, !.mass = d, !.inertia = d]
setMass(b, m) == [b EXCEPT !.mass = m, !.inertia = m, !.density = m]

\* Body.setStatic: going static saves the material in _original and makes
\* the body immovable; going dynamic restores _original when there is one.
setStatic(b, isStatic) ==
    IF isStatic
    THEN [b EXCEPT !.isStatic = TRUE,
                   !.original = [restitution |-> b.restitution,
                                 friction |-> b.friction, mass |-> b.mass,
                                 inertia |-> b.inertia,
                                 density |-> b.density],
                   !.restitution = 0, !.friction = 1000000,
                   !.mass = Infinity, !.inertia = Infinity,
                   !.density = Infinity,
                   !.velocity = ZeroVelocity,
                   !.angularVelocity = ZeroAngularVelocity]
    ELSE IF b.original # None
    THEN [b EXCEPT !.isStatic = FALSE,
                   !.restitution = b.original.restitution,
                   !.friction = b.original.friction,
                   !.mass = b.original.mass,
                   !.inertia = b.original.inertia,
                   !.density = b.original.density,
                   !.original = None]
    ELSE [b EXCEPT !.isStatic = FALSE]

\* utils/bodies.ts setBodyType
setBodyType(b, isStatic) ==
    IF b.initialProperties = None THEN b
    ELSE IF isStatic
    THEN setStatic([b EXCEPT !.dynamicProperties =
                       [mass |-> b.mass, inertia |-> b.inertia,
                        friction |-> b.friction,
                        frictionAir |-> b.frictionAir,
                        restitution |-> b.restitution]], TRUE)
    ELSE LET b1 == setStatic(setMass(b, b.initialProperties.mass), FALSE)
             b2 == [b1 EXCEPT !.inertia = b.initialProperties.inertia,
                              !.friction = b.initialProperties.friction,
                              !.frictionAir = b.initialProperties.frictionAir,
                              !.restitution = b.initialProperties.restitution]
         IN setAngularVelocity(setVelocity(b2, ZeroVelocity),
                               ZeroAngularVelocity)

\* Body.create of createMatterBody: the compound body with the layer
\* transform applied and the synthesized dynamic mass, inertia and material.
CreatedBody(layerId, layer) ==
    [id |-> layerId, layerId |-> layerId, inOut |-> layer.inOut,
     isStaticInitial |-> (IF layer.bodyType = 1 THEN FALSE ELSE TRUE),
     position |-> layer.layerPosition, velocity |-> ZeroVelocity,
     angle |-> layer.layerRotation,
     angularVelocity |-> ZeroAngularVelocity,
     scaleX |-> Max2(layer.layerScale[1] * ScaleUnit, 1),
     scaleY |-> Max2(layer.layerScale[2] * ScaleUnit, 1),
     isStatic |-> FALSE, isSleeping |-> FALSE,
     opacity |-> 100, fillStyle |-> "fill", originalFillStyle |-> "",
     category |-> 1, mask |-> 65535,
     mass |-> 1000, inertia |-> 1000, density |-> 1000,
     friction |-> 100000, frictionAir |-> 10000, restitution |-> 100000,
     initialProperties |-> None,
     dynamicProperties |-> None, original |-> None,
     integrated |-> 0]

\* createMatterBody: Body.create makes the body static when the start
\* bodyType is not 1; the initial properties are read from the body as
\* created; then the body is set static again or given its dynamic values,
\* and coloured.
NewBody(layerId, layer) ==
    LET b0 == IF layer.bodyType = 1 THEN CreatedBody(layerId, layer)
              ELSE setStatic(CreatedBody(layerId, layer), TRUE)
        initialProperties ==
            [mass |-> b0.mass, inertia |-> b0.inertia, density |-> 1000,
             friction |-> 100000, frictionAir |-> 10000, restitution |-> 0]
        b1 == [b0 EXCEPT !.initialProperties = initialProperties]
        b2 == IF layer.isStatic THEN setStatic(b1, TRUE)
              ELSE [setDensity(setMass(b1, initialProperties.mass),
                               initialProperties.density)
                      EXCEPT !.friction = initialProperties.friction,
                             !.frictionAir = initialProperties.frictionAir,
                             !.restitution = initialProperties.restitution]
    IN IF layer.isStatic
       THEN [b2 EXCEPT !.opacity = 50, !.fillStyle = GREY]
       ELSE b2

\* ------------------------------------------------------------------------
\* In/out points (utils/simulation/simInOutPoints.ts)
\* ------------------------------------------------------------------------
\* outPointFrame is Infinity when inOut[1] is not set: then no frame is
\* after the out point.
checkInOutStatus(inOut, nextFrame, fps, workareaStart) ==
    LET inPointFrame == IF inOut # <<>> /\ inOut[1] # 0
                        THEN MathRound(inOut[1] * fps, TimeBase) ELSE 0
        hasOut == inOut # <<>> /\ inOut[2] # 0
        outPointFrame == IF hasOut THEN MathRound(inOut[2] * fps, TimeBase)
                         ELSE Infinity
        workareaStartFrame == MathRound(workareaStart * fps, TimeBase)
        isBeforeInPoint == inPointFrame > workareaStartFrame
                           /\ nextFrame < inPointFrame
        isAfterOutPoint == hasOut /\ nextFrame >= outPointFrame
    IN [isDisabled |-> isBeforeInPoint \/ isAfterOutPoint,
        isAtInPoint |-> nextFrame = inPointFrame,
        inPointAfterWorkarea |-> inPointFrame > workareaStartFrame]

applyDisabledState(b) ==
    [SleepingSet(b, TRUE) EXCEPT !.opacity = 25, !.category = 0, !.mask = 0]

applyEnabledState(b, isStatic) ==
    [b EXCEPT !.opacity = IF isStatic THEN 50 ELSE 100,
              !.category = 1, !.mask = 65535]

applyBodyTypeVisuals(b, isStatic) ==
    IF isStatic
    THEN [b EXCEPT !.opacity = 50,
                   !.originalFillStyle = IF b.originalFillStyle = ""
                                         THEN b.fillStyle
                                         ELSE b.originalFillStyle,
                   !.fillStyle = GREY]
    ELSE [b EXCEPT !.opacity = 100,
                   !.fillStyle = IF b.originalFillStyle # ""
                                 THEN b.originalFillStyle ELSE b.fillStyle]

handleInPointActivation(b, lp, currentCompIdx) ==
    LET bt == lp.bodyType
        atInPointStatic ==
            IF bt # None /\ Len(bt.values) > 0
            THEN LET candidateIdx == Min2(currentCompIdx, Len(bt.values) - 1)
                     preInPointIdx == IF bt.last >= 0
                                      THEN Min2(candidateIdx, bt.last)
                                      ELSE candidateIdx
                 IN RoundBodyType(At(bt.values, preInPointIdx)) = 2
            ELSE IF bt # None THEN RoundBodyType(bt.pre) = 2
            ELSE b.isStaticInitial
        b1 == setStatic(b, atInPointStatic)
        b2 == IF atInPointStatic THEN b1 ELSE SleepingSet(b1, FALSE)
    IN [applyBodyTypeVisuals(b2, atInPointStatic)
           EXCEPT !.category = 1, !.mask = 65535]

\* ------------------------------------------------------------------------
\* Keyframe forcing (utils/simulation/simKeyframeForcing.ts)
\* ------------------------------------------------------------------------
\* Each helper returns the body and what it did: forced (the transform was
\* hard-set), zeroed (the velocity was zeroed), handoff (the velocity was
\* derived at the last keyframe) and threw (a TypeError ended the call).
NoForce(b) ==
    [body |-> b, forced |-> FALSE, zeroed |-> FALSE, handoff |-> FALSE,
     threw |-> FALSE]

\* The handoff with the ratio inverted: fps / simulationFps.
handoffVelocity_InvertedRatio(posSeries, pre, currentCompIdx, simulationFps, fps) ==
    LET prev == IF currentCompIdx > 0
                THEN At(posSeries, currentCompIdx - 1) ELSE pre
        cur == At(posSeries, currentCompIdx)
    IN <<(cur[1] - prev[1]) * fps, (cur[2] - prev[2]) * fps, simulationFps>>

\* The velocity inherited at the last keyframe: the difference to the
\* previous sample (the pre-value at index 0) times simulationFps / fps.
handoffVelocity(posSeries, pre, currentCompIdx, simulationFps, fps) ==
    LET prev == IF currentCompIdx > 0
                THEN At(posSeries, currentCompIdx - 1) ELSE pre
        cur == At(posSeries, currentCompIdx)
    IN <<(cur[1] - prev[1]) * simulationFps,
         (cur[2] - prev[2]) * simulationFps, fps>>

forcePosition(b, lp, currentCompIdx, expectedCompFrames, simulationFps, fps) ==
    IF lp.position = None THEN NoForce(b)
    ELSE
      LET posSeries == lp.position.values
          lastPosIdx == lp.position.last
          posIsHold == lp.position.isHold
          lastPosInside == lastPosIdx >= 0 /\ lastPosIdx < expectedCompFrames
          shouldForcePos == ~lastPosInside \/ posIsHold
                            \/ currentCompIdx <= lastPosIdx
          doForce == shouldForcePos /\ currentCompIdx < Len(posSeries)
          doZero == doForce /\ (currentCompIdx < lastPosIdx \/ posIsHold
                                \/ ~lastPosInside)
          b1 == IF doForce
                THEN setPosition(b, At(posSeries, currentCompIdx)) ELSE b
          b2 == IF doZero THEN setVelocity(b1, ZeroVelocity) ELSE b1
          b3 == IF doForce THEN SleepingSet(b2, FALSE) ELSE b2
          atLast == currentCompIdx = lastPosIdx
          \* posSeries[currentCompIdx] is undefined past the end of the
          \* array, and reading [0] of it throws.
          throws == atLast /\ currentCompIdx >= Len(posSeries)
          b4 == IF atLast /\ ~throws
                THEN setVelocity(b3,
                        handoffVelocity(posSeries, lp.position.pre,
                                        currentCompIdx, simulationFps, fps))
                ELSE b3
      IN [body |-> b4, forced |-> doForce, zeroed |-> doZero,
          handoff |-> atLast /\ ~throws, threw |-> throws]

\* rotSeries[currentCompIdx] past the end is undefined and the difference
\* is NaN: no exception, the angular velocity becomes NaN.
NaN == <<0, 0>>

forceRotation(b, lp, currentCompIdx, expectedCompFrames, simulationFps, fps) ==
    IF lp.rotation = None THEN NoForce(b)
    ELSE
      LET rotSeries == lp.rotation.values
          lastRotIdx == lp.rotation.last
          rotIsHold == lp.rotation.isHold
          lastRotInside == lastRotIdx >= 0 /\ lastRotIdx < expectedCompFrames
          shouldForceRot == ~lastRotInside \/ rotIsHold
                            \/ currentCompIdx <= lastRotIdx
          doForce == shouldForceRot /\ currentCompIdx < Len(rotSeries)
          doZero == doForce /\ (currentCompIdx < lastRotIdx \/ rotIsHold
                                \/ ~lastRotInside)
          b1 == IF doForce
                THEN setAngle(b, At(rotSeries, currentCompIdx)) ELSE b
          b2 == IF doZero THEN setAngularVelocity(b1, ZeroAngularVelocity)
                ELSE b1
          b3 == IF doForce THEN SleepingSet(b2, FALSE) ELSE b2
          atLast == currentCompIdx = lastRotIdx
          outside == currentCompIdx >= Len(rotSeries)
          prev == IF currentCompIdx > 0
                  THEN At(rotSeries, currentCompIdx - 1)
                  ELSE lp.rotation.pre
          b4 == IF ~atLast THEN b3
                ELSE IF outside THEN setAngularVelocity(b3, NaN)
                ELSE setAngularVelocity(b3,
                        <<(At(rotSeries, currentCompIdx) - prev)
                              * simulationFps, fps>>)
      IN [body |-> b4, forced |-> doForce, zeroed |-> doZero,
          handoff |-> atLast, threw |-> FALSE]

\* forceScale with its guard off by one: the last keyframe is not applied.
forceScale_OffByOne(b, lp, currentCompIdx) ==
    IF lp.scale = None \/ currentCompIdx >= lp.scale.last
       \/ currentCompIdx >= Len(lp.scale.values)
    THEN NoForce(b)
    ELSE
      LET pct == At(lp.scale.values, currentCompIdx)
      IN [body |-> SleepingSet([b EXCEPT
                                  !.scaleX = Max2(pct[1] * ScaleUnit, 1),
                                  !.scaleY = Max2(pct[2] * ScaleUnit, 1)],
                               FALSE),
          forced |-> TRUE, zeroed |-> FALSE, handoff |-> FALSE,
          threw |-> FALSE]

forceScale(b, lp, currentCompIdx) ==
    IF lp.scale = None \/ currentCompIdx > lp.scale.last
       \/ currentCompIdx >= Len(lp.scale.values)
    THEN NoForce(b)
    ELSE
      LET pct == At(lp.scale.values, currentCompIdx)
          targetScaleX == Max2(pct[1] * ScaleUnit, 1)
          targetScaleY == Max2(pct[2] * ScaleUnit, 1)
      IN [body |-> SleepingSet([b EXCEPT !.scaleX = targetScaleX,
                                         !.scaleY = targetScaleY], FALSE),
          forced |-> TRUE, zeroed |-> FALSE, handoff |-> FALSE,
          threw |-> FALSE]

\* ------------------------------------------------------------------------
\* Physics properties (utils/simulation/simPhysicsProps.ts)
\* ------------------------------------------------------------------------
\* A material series applies at currentCompIdx.
InWindow(series, currentCompIdx) ==
    series # None /\ currentCompIdx <= series.last
    /\ currentCompIdx < Len(series.values)

\* Material values are in units of 1e-6: a density sample d is d/1000.
\* The material values of a body.
Material(b) ==
    [density |-> b.density, friction |-> b.friction,
     frictionAir |-> b.frictionAir, restitution |-> b.restitution]

updatePhysicsProperties(b, lp, currentCompIdx, frictionAirDefault) ==
    LET dOn == InWindow(lp.density, currentCompIdx)
        fOn == InWindow(lp.friction, currentCompIdx)
        aOn == InWindow(lp.frictionAir, currentCompIdx)
        rOn == InWindow(lp.restitution, currentCompIdx)
        b1 == IF dOn
              THEN SleepingSet(setDensity(b,
                       Max2(At(lp.density.values, currentCompIdx) * 1000, 1)),
                       FALSE)
              ELSE b
        b2 == IF fOn
              THEN SleepingSet([b1 EXCEPT !.friction =
                       At(lp.friction.values, currentCompIdx)], FALSE)
              ELSE b1
        b3 == IF aOn
              THEN SleepingSet([b2 EXCEPT !.frictionAir =
                       At(lp.frictionAir.values, currentCompIdx)], FALSE)
              ELSE [b2 EXCEPT !.frictionAir = frictionAirDefault]
        b4 == IF rOn
              THEN SleepingSet([b3 EXCEPT !.restitution =
                       At(lp.restitution.values, currentCompIdx)], FALSE)
              ELSE b3
    IN [body |-> b4, forced |-> dOn \/ fOn \/ aOn \/ rOn,
        mat |-> [before |-> Material(b), after |-> Material(b4),
                 frictionAirDefault |-> frictionAirDefault]]

\* ------------------------------------------------------------------------
\* Body type switching and gravity (utils/simulation/simGravity.ts)
\* ------------------------------------------------------------------------
handleBodyTypeSwitch(b, lp, currentCompIdx, isDisabled) ==
    IF ~InWindow(lp.bodyType, currentCompIdx)
    THEN [body |-> b, switched |-> FALSE]
    ELSE
      LET currentValRounded ==
              RoundBodyType(At(lp.bodyType.values, currentCompIdx))
          prevValRounded ==
              IF currentCompIdx > 0
              THEN RoundBodyType(At(lp.bodyType.values, currentCompIdx - 1))
              ELSE RoundBodyType(lp.bodyType.pre)
          doSwitch == ~isDisabled /\ currentValRounded # prevValRounded
          toStatic == currentValRounded = 2
          b1 == setBodyType(b, toStatic)
          b2 == IF toStatic THEN b1 ELSE SleepingSet(b1, FALSE)
      IN IF doSwitch
         THEN [body |-> applyBodyTypeVisuals(b2, toStatic), switched |-> TRUE]
         ELSE [body |-> b, switched |-> FALSE]

\* The properties setBodyType records when a body goes static.
DynamicProperties(b) ==
    [mass |-> b.mass, inertia |-> b.inertia, friction |-> b.friction,
     frictionAir |-> b.frictionAir, restitution |-> b.restitution]

\* The gravity angle is kept in degrees (gravity.x = -sin, gravity.y = cos
\* of it), the gravity scale as the authored value (gravity.scale is
\* value / (9.8 * 3) * 0.01); the drag d gives the air friction d / 100.
updateGravity(eng, comp, compFrameIdx) ==
    IF comp = None THEN [engine |-> eng, frictionAirDefault |-> 0]
    ELSE
      LET g == comp.animatedGravityProperties
          pick(series, raw) ==
              IF series # None /\ compFrameIdx < Len(series.values)
              THEN At(series.values, compFrameIdx) ELSE raw
          angleVal == pick(g.gravityAngle, comp.gravityAngle)
          scaleVal == pick(g.gravityScale, comp.gravityScale)
          dragVal == pick(g.drag, comp.drag)
      IN [engine |-> [eng EXCEPT !.gravityAngle = angleVal,
                                 !.gravityScale = scaleVal,
                                 !.gravityIdx = compFrameIdx],
          frictionAirDefault |-> Max2(dragVal, 0) * ScaleUnit]

\* ------------------------------------------------------------------------
\* Frame capture and the engine step
\* ------------------------------------------------------------------------
\* plugin is captured by reference: pluginOf names the body whose plugin
\* object the snapshot shares.
captureFrame(world, time) ==
    [time |-> time,
     bodies |-> [id \in DOMAIN world |->
        [id |-> world[id].id, position |-> world[id].position,
         angle |-> world[id].angle,
         scale |-> <<world[id].scaleX, world[id].scaleY>>,
         isStatic |-> world[id].isStatic, opacity |-> world[id].opacity,
         fillStyle |-> world[id].fillStyle, pluginOf |-> id]]]

\* Engine.update: the solver is not modelled; a body that is neither static
\* nor asleep is integrated once more since its position was last set.
EngineUpdate(eng, delta) ==
    [eng EXCEPT !.timestamp = @ + delta, !.steps = @ + 1,
                !.lastDelta = delta]
Integrate(world) ==
    [id \in DOMAIN world |->
        IF world[id].isStatic \/ world[id].isSleeping THEN world[id]
        ELSE [world[id] EXCEPT !.integrated = @ + 1]]

\* ------------------------------------------------------------------------
\* One tick of calculateAllFrames (index.tsx, useSimulationRunner)
\* ------------------------------------------------------------------------
Step(name, body) == [step |-> name, body |-> body]
NoInfo ==
    [ran |-> FALSE, disabled |-> FALSE, activated |-> FALSE, idx |-> 0,
     pos |-> [forced |-> FALSE, zeroed |-> FALSE, handoff |-> FALSE],
     rot |-> [forced |-> FALSE, zeroed |-> FALSE, handoff |-> FALSE],
     scale |-> FALSE, material |-> FALSE, switched |-> FALSE,
     velocity |-> ZeroVelocity, angularVelocity |-> ZeroAngularVelocity,
     mat |-> None, typeBefore |-> None]
What(r) == [forced |-> r.forced, zeroed |-> r.zeroed, handoff |-> r.handoff]

\* The callback of world.bodies.forEach for a body that is disabled ...
DisabledPass(b, currentCompIdx) ==
    [body |-> applyDisabledState(b),
     log |-> <<Step("checkInOutStatus", b.id),
               Step("applyDisabledState", b.id)>>,
     info |-> [NoInfo EXCEPT !.ran = TRUE, !.disabled = TRUE,
                             !.idx = currentCompIdx],
     threw |-> FALSE]

\* ... and for one that is not.
EnabledPass(b, lp, st, currentCompIdx, expectedCompFrames, fps, frictionAirDefault) ==
    LET gate == <<Step("checkInOutStatus", b.id)>>
        b1 == IF ~st.inPointAfterWorkarea
              THEN applyEnabledState(b, b.isStatic)
              ELSE IF st.isAtInPoint
              THEN handleInPointActivation(b, lp, currentCompIdx)
              ELSE b
        b2 == IF ~b1.isStatic THEN SleepingSet(b1, FALSE) ELSE b1
        p == forcePosition(b2, lp, currentCompIdx, expectedCompFrames,
                           SIMULATION_FPS, fps)
        r == forceRotation(p.body, lp, currentCompIdx, expectedCompFrames,
                           SIMULATION_FPS, fps)
        s == forceScale(r.body, lp, currentCompIdx)
        m == updatePhysicsProperties(s.body, lp, currentCompIdx,
                                     frictionAirDefault)
        t == handleBodyTypeSwitch(m.body, lp, currentCompIdx, st.isDisabled)
        activated == st.inPointAfterWorkarea /\ st.isAtInPoint
    IN IF p.threw
       THEN [body |-> p.body,
             log |-> gate \o <<Step("forcePosition", b.id)>>,
             info |-> [NoInfo EXCEPT !.ran = TRUE, !.pos = What(p),
                                     !.activated = activated,
                                     !.idx = currentCompIdx,
                                     !.velocity = p.body.velocity],
             threw |-> TRUE]
       ELSE [body |-> t.body,
             log |-> gate \o <<Step("forcePosition", b.id),
                               Step("forceRotation", b.id),
                               Step("forceScale", b.id),
                               Step("updatePhysicsProperties", b.id),
                               Step("handleBodyTypeSwitch", b.id)>>,
             info |-> [ran |-> TRUE, disabled |-> FALSE,
                       activated |-> activated, idx |-> currentCompIdx,
                       pos |-> What(p), rot |-> What(r),
                       scale |-> s.forced, material |-> m.forced,
                       switched |-> t.switched,
                       velocity |-> p.body.velocity,
                       angularVelocity |-> r.body.angularVelocity,
                       mat |-> m.mat,
                       typeBefore |-> DynamicProperties(m.body)],
             threw |-> FALSE]

\* The callback without its early return: the disabled state is applied
\* and the forcing goes on.
BodyPass_NoReturn(b, plan, nextFrame, currentCompIdx, expectedCompFrames, fps, workareaStart, frictionAirDefault) ==
    LET lp == planLayer(plan, b.layerId)
        st == checkInOutStatus(b.inOut, nextFrame, fps, workareaStart)
        d == IF st.isDisabled THEN DisabledPass(b, currentCompIdx).body ELSE b
    IN EnabledPass(d, lp, st, currentCompIdx, expectedCompFrames, fps,
                   frictionAirDefault)

\* The callback of world.bodies.forEach for one body: a disabled body is
\* put in the disabled state and nothing else is done to it.
BodyPass(b, plan, nextFrame, currentCompIdx, expectedCompFrames, fps, workareaStart, frictionAirDefault) ==
    LET lp == planLayer(plan, b.layerId)
        st == checkInOutStatus(b.inOut, nextFrame, fps, workareaStart)
    IN IF st.isDisabled
       THEN DisabledPass(b, currentCompIdx)
       ELSE EnabledPass(b, lp, st, currentCompIdx, expectedCompFrames, fps,
                        frictionAirDefault)

RECURSIVE ForEachBody(_, _, _, _, _, _, _, _, _)
\* world.bodies.forEach over the ids in `order`; an exception ends it.
ForEachBody(order, acc, plan, nextFrame, currentCompIdx, expectedCompFrames, fps, workareaStart, frictionAirDefault) ==
    IF order = <<>> \/ acc.threw THEN acc
    ELSE
      LET id == Head(order)
          res == BodyPass(acc.world[id], plan, nextFrame, currentCompIdx,
                          expectedCompFrames, fps, workareaStart,
                          frictionAirDefault)
      IN ForEachBody(Tail(order),
                     [world |-> [acc.world EXCEPT ![id] = res.body],
                      log |-> acc.log \o res.log,
                      info |-> [acc.info EXCEPT ![id] = res.info],
                      threw |-> res.threw],
                     plan, nextFrame, currentCompIdx, expectedCompFrames,
                     fps, workareaStart, frictionAirDefault)

\* The ids of world.bodies in insertion order.
RECURSIVE WorldOrder(_)
WorldOrder(ids) ==
    IF ids = {} THEN <<>>
    ELSE LET m == CHOOSE x \in ids : \A y \in ids : x <= y
         IN <<m>> \o WorldOrder(ids \ {m})

\* Loop constants of calculateAllFrames.
workareaDuration == workarea[2] - workarea[1]
totalPhysicsFrames == MathCeil(workareaDuration * SIMULATION_FPS, TimeBase)
expectedCompFrames == MathRound(workareaDuration * compFramerate, TimeBase)
expectedPhysicsFrame(n) == MathRound(n * SIMULATION_FPS, compFramerate)
frameTime(n) == workarea[1] + (n * TimeBase) \div compFramerate
currentCompIdxOf(n) == Max2(0, n - 1)

\* ------------------------------------------------------------------------
\* Initial state: the panel is idle, the host data is loaded and the
\* bodies of the layers are in the world.
\* ------------------------------------------------------------------------
CompOf(n, pk, rk, sk, pk2, io, bt2) ==
    [layers |-> [l \in Layers |-> IF l = 1 THEN Layer1(n, pk, rk, sk)
                                  ELSE Layer2(n, pk2, io, bt2)],
     gravityAngle |-> 90, gravityScale |-> 98, drag |-> 0,
     animatedGravityProperties |->
        [gravityAngle |-> None, gravityScale |-> None, drag |-> None]]

Engine0 ==
    [timestamp |-> 0, steps |-> 0, lastDelta |-> 0, gravityAngle |-> 90,
     gravityScale |-> 98, gravityIdx |-> 0]

\* usePreviewRenderer's layout effect, run when the bodies or the status
\* change and the status is not "running": it sets the opacity of every
\* body and puts exactly these bodies in the world.
InitializeBody(b, fps, workareaStart) ==
    LET inPointFrame == IF b.inOut # <<>> /\ b.inOut[1] # 0
                        THEN MathRound(b.inOut[1] * fps, TimeBase) ELSE 0
        workareaStartFrame == MathRound(workareaStart * fps, TimeBase)
        inAfterWorkarea == inPointFrame > workareaStartFrame
        normalOpacity == IF b.isStatic THEN 50 ELSE 100
    IN [b EXCEPT !.opacity = IF inAfterWorkarea THEN 25 ELSE normalOpacity]
InitializeBodies(matterBodies, fps, workareaStart) ==
    [l \in DOMAIN matterBodies |->
        InitializeBody(matterBodies[l], fps, workareaStart)]

\* The loop yields to the event loop after every YieldEvery-th tick, the
\* first included; physicsFrame is the tick to execute next. Outside the
\* loop nothing is running.
YieldEvery == 10
AtYield(p, nextTick) == p # "loop" \/ (nextTick - 1) % YieldEvery = 0

\* No calculateAllFrames outlives its effect; no playback.
NoLoop ==
    [pc |-> "none", physicsFrame |-> 0, nextCompFrame |-> 1,
     frames |-> <<>>, compFramerate |-> 0, workarea |-> <<0, 0>>,
     plan |-> None, comp |-> None]
NoPlayback ==
    [active |-> FALSE, frameIndex |-> 0, frames |-> <<>>,
     started |-> FALSE, elapsed |-> 0]

Init ==
    /\ compFramerate \in FpsSet
    /\ \E start \in StartSet, dur \in DurSet :
          workarea = <<start, start + dur>>
    /\ \E k1 \in Keys1, pk2 \in PosKeys2, io \in InOutSet2,
          bt2 \in StartTypes2 :
          compData = CompOf(totalFrames(compFramerate, workarea),
                            k1[1], k1[2], k1[3], pk2, io, bt2)
    /\ simulationStatus = "idle"
    /\ propsCheckDoneRef = FALSE
    /\ animPlanRef = None
    /\ pc = "none"
    /\ physicsFrame = 0
    /\ nextCompFrame = 1
    /\ frames = <<>>
    /\ frameDataRef = <<>>
    /\ engine = Engine0
    /\ bodies = InitializeBodies(
                    [l \in Layers |-> NewBody(l, compData.layers[l])],
                    compFramerate, workarea[1])
    /\ tickLog = <<>>
    /\ tickInfo = [l \in Layers |-> NoInfo]
    /\ frameMeta = <<>>
    /\ runButton = "idle"
    /\ currentCompId = 1
    /\ timingPending = FALSE
    /\ orphan = NoLoop
    /\ playback = NoPlayback
    /\ synthesis = None
    /\ decomposition = None
    /\ projectState = None

\* ------------------------------------------------------------------------
\* Actions
\* ------------------------------------------------------------------------
\* handleRunButton up to setSimulationStatus("preparing"); the runner's
\* effect on "preparing" resets its build-once guard.
HandleRunButton ==
    /\ simulationStatus \in {"idle", "preparing"}
    /\ runButton = "idle"
    /\ runButton' = "waiting"
    /\ simulationStatus' = "preparing"
    /\ propsCheckDoneRef' = FALSE
    /\ animPlanRef' = None
    /\ UNCHANGED <<compFramerate, workarea, compData, pc, physicsFrame,
                   nextCompFrame, frames, frameDataRef, engine, bodies,
                   tickLog, tickInfo, frameMeta>>
    /\ UNCHANGED hostVars
    /\ UNCHANGED utilVars

\* handleRunButton, after its waits: setSimulationStatus("running").
RunButtonStart ==
    /\ runButton = "waiting"
    /\ runButton' = "done"
    /\ simulationStatus' = "running"
    /\ UNCHANGED <<compFramerate, workarea, compData, propsCheckDoneRef,
                   animPlanRef, pc, physicsFrame, nextCompFrame, frames,
                   frameDataRef, engine, bodies, tickLog, tickInfo,
                   frameMeta>>
    /\ UNCHANGED hostVars
    /\ UNCHANGED utilVars

\* The runner's effect on "running": build the plan once and enter
\* calculateAllFrames up to its loop (frame 0 is captured here).
RunnerEffect ==
    /\ simulationStatus = "running"
    /\ pc = "none"
    /\ animPlanRef' = IF propsCheckDoneRef THEN animPlanRef
                      ELSE buildAnimationPlan(compData)
    /\ propsCheckDoneRef' = TRUE
    /\ engine' = [engine EXCEPT !.timestamp = 0]
    /\ frames' = <<captureFrame(bodies, workarea[1])>>
    /\ frameMeta' = <<[frame |-> 0, tick |-> 0 - 1,
                       info |-> [l \in DOMAIN bodies |-> NoInfo]]>>
    /\ nextCompFrame' = 1
    /\ physicsFrame' = 0
    /\ pc' = "loop"
    /\ UNCHANGED <<compFramerate, workarea, compData, simulationStatus,
                   frameDataRef, bodies, tickLog, tickInfo, runButton>>
    /\ UNCHANGED hostVars
    /\ UNCHANGED utilVars

\* One iteration of the for loop. The results of updateGravity and of the
\* forEach pass are computed once and named by the bound variables.
Tick ==
    /\ pc = "loop"
    /\ physicsFrame <= totalPhysicsFrames
    /\ \E grav \in {updateGravity(engine, compData,
                        Max2(0, MathFloor(engine.timestamp * compFramerate,
                                          1000)))} :
       \E pass \in {IF animPlanRef = None
                    THEN [world |-> bodies, log |-> <<>>,
                          info |-> [l \in DOMAIN bodies |-> NoInfo],
                          threw |-> FALSE]
                    ELSE ForEachBody(WorldOrder(DOMAIN bodies),
                           [world |-> bodies, log |-> <<>>,
                            info |-> [l \in DOMAIN bodies |-> NoInfo],
                            threw |-> FALSE],
                           animPlanRef, nextCompFrame,
                           currentCompIdxOf(nextCompFrame),
                           expectedCompFrames, compFramerate, workarea[1],
                           grav.frictionAirDefault)} :
       \E doCapture \in {physicsFrame = expectedPhysicsFrame(nextCompFrame)
                          /\ nextCompFrame <= expectedCompFrames} :
          /\ tickInfo' = pass.info
          /\ IF pass.threw
             THEN /\ pc' = "threw"
                  /\ engine' = grav.engine
                  /\ bodies' = pass.world
                  /\ tickLog' = <<Step("updateGravity", 0)>> \o pass.log
                  /\ UNCHANGED <<frames, frameMeta, nextCompFrame,
                                 physicsFrame>>
             ELSE /\ pc' = "loop"
                  /\ engine' = EngineUpdate(grav.engine, SIMULATION_DELTA)
                  /\ bodies' = Integrate(pass.world)
                  /\ tickLog' = <<Step("updateGravity", 0)>> \o pass.log
                                \o <<Step("Engine.update", 0),
                                     Step("snapshot", 0)>>
                  /\ frames' = IF doCapture
                               THEN Append(frames,
                                      captureFrame(bodies',
                                                   frameTime(nextCompFrame)))
                               ELSE frames
                  /\ frameMeta' = IF doCapture
                                  THEN Append(frameMeta,
                                         [frame |-> nextCompFrame,
                                          tick |-> physicsFrame,
                                          info |-> pass.info])
                                  ELSE frameMeta
                  /\ nextCompFrame' = IF doCapture THEN nextCompFrame + 1
                                      ELSE nextCompFrame
                  /\ physicsFrame' = physicsFrame + 1
    /\ UNCHANGED <<compFramerate, workarea, compData, simulationStatus,
                   propsCheckDoneRef, animPlanRef, frameDataRef, runButton>>
    /\ UNCHANGED hostVars
    /\ UNCHANGED utilVars

\* After the loop: publish the frames and complete; the status having
\* changed, the layout effect initialises the bodies again.
Publish ==
    /\ pc = "loop"
    /\ physicsFrame > totalPhysicsFrames
    /\ frameDataRef' = frames
    /\ simulationStatus' = "completed"
    /\ pc' = "done"
    /\ bodies' = IF simulationStatus = "completed" THEN bodies
                 ELSE InitializeBodies(bodies, compFramerate, workarea[1])
    /\ UNCHANGED <<compFramerate, workarea, compData, propsCheckDoneRef,
                   animPlanRef, physicsFrame, nextCompFrame, frames, engine,
                   tickLog, tickInfo, frameMeta, runButton>>
    /\ UNCHANGED hostVars
    /\ UNCHANGED utilVars

Next == HandleRunButton \/ RunButtonStart \/ RunnerEffect \/ Tick \/ Publish

Spec == Init /\ [][Next]_vars

\* ------------------------------------------------------------------------
\* The panel around the runner: the host's composition switch, the timing
\* refresh it awaits, and the playback. Its events run only while no loop
\* is between two yields.
\* ------------------------------------------------------------------------
\* The timing of the composition switched to.
TimingB == [framerate |-> 60, workarea |-> <<0, 7 * DurStep>>]

\* What a running calculateAllFrames holds in its closure.
Closure ==
    [pc |-> "loop", physicsFrame |-> physicsFrame,
     nextCompFrame |-> nextCompFrame, frames |-> frames,
     compFramerate |-> compFramerate, workarea |-> workarea,
     plan |-> animPlanRef, comp |-> compData]

MainAtYield == AtYield(pc, physicsFrame)
OrphanAtYield == AtYield(orphan.pc, orphan.physicsFrame)

\* getCurrentCompId finds another composition active. useLayerPhysics has
\* no layer data for it and empties matterBodies; updateCompData sets
\* "preparing" and asks for the timing; the layout effect clears the
\* world. A loop in progress is not cancelled.
CompSwitch ==
    /\ MainAtYield /\ OrphanAtYield
    /\ currentCompId = 1
    /\ currentCompId' = 2
    /\ compData' = None
    /\ simulationStatus' = "preparing"
    /\ propsCheckDoneRef' = FALSE
    /\ animPlanRef' = None
    /\ timingPending' = TRUE
    /\ bodies' = <<>>
    /\ orphan' = IF pc = "loop" THEN Closure ELSE orphan
    /\ pc' = IF pc = "loop" THEN "none" ELSE pc
    /\ playback' = NoPlayback
    /\ UNCHANGED <<compFramerate, workarea, physicsFrame, nextCompFrame,
                   frames, frameDataRef, engine, tickLog, tickInfo,
                   frameMeta, runButton>>
    /\ UNCHANGED utilVars

\* updateTimingInfo's answer arrives: setCompFramerate and setWorkarea.
\* When a value changes, the runner's effect and the playback's effect
\* fire again; a loop in progress is not cancelled.
TimingUpdate ==
    /\ MainAtYield /\ OrphanAtYield
    /\ timingPending
    /\ timingPending' = FALSE
    /\ compFramerate' = TimingB.framerate
    /\ workarea' = TimingB.workarea
    /\ \E changed \in {compFramerate # TimingB.framerate
                        \/ workarea # TimingB.workarea} :
          /\ orphan' = IF changed /\ simulationStatus = "running"
                          /\ pc = "loop"
                       THEN Closure ELSE orphan
          /\ pc' = IF changed /\ simulationStatus = "running"
                   THEN "none" ELSE pc
          /\ playback' = IF changed THEN NoPlayback ELSE playback
    /\ UNCHANGED <<compData, simulationStatus, propsCheckDoneRef,
                   animPlanRef, physicsFrame, nextCompFrame, frames,
                   frameDataRef, engine, bodies, tickLog, tickInfo,
                   frameMeta, runButton, currentCompId>>
    /\ UNCHANGED utilVars

\* One iteration of the for loop of a calculateAllFrames whose effect has
\* fired again since: it works on the engine and the world of the panel
\* with the timing, the plan and the composition it was started with.
OrphanTick ==
    /\ MainAtYield
    /\ orphan.pc = "loop"
    /\ \E o \in {orphan} :
       \E dur \in {o.workarea[2] - o.workarea[1]} :
       \E expComp \in {MathRound(dur * o.compFramerate, TimeBase)} :
       \E grav \in {updateGravity(engine, o.comp,
                        Max2(0, MathFloor(engine.timestamp * o.compFramerate,
                                          1000)))} :
       \E pass \in {IF o.plan = None
                    THEN [world |-> bodies, log |-> <<>>,
                          info |-> [l \in DOMAIN bodies |-> NoInfo],
                          threw |-> FALSE]
                    ELSE ForEachBody(WorldOrder(DOMAIN bodies),
                           [world |-> bodies, log |-> <<>>,
                            info |-> [l \in DOMAIN bodies |-> NoInfo],
                            threw |-> FALSE],
                           o.plan, o.nextCompFrame,
                           currentCompIdxOf(o.nextCompFrame),
                           expComp, o.compFramerate, o.workarea[1],
                           grav.frictionAirDefault)} :
       \E doCapture \in {o.physicsFrame
                            = MathRound(o.nextCompFrame * SIMULATION_FPS,
                                        o.compFramerate)
                          /\ o.nextCompFrame <= expComp} :
          /\ o.physicsFrame <= MathCeil(dur * SIMULATION_FPS, TimeBase)
          /\ IF pass.threw
             THEN /\ orphan' = [o EXCEPT !.pc = "threw"]
                  /\ engine' = grav.engine
                  /\ bodies' = pass.world
             ELSE /\ engine' = EngineUpdate(grav.engine, SIMULATION_DELTA)
                  /\ bodies' = Integrate(pass.world)
                  /\ orphan' =
                       [o EXCEPT
                          !.frames =
                             IF doCapture
                             THEN Append(@, captureFrame(bodies',
                                    o.workarea[1]
                                    + (o.nextCompFrame * TimeBase)
                                      \div o.compFramerate))
                             ELSE @,
                          !.nextCompFrame = IF doCapture THEN @ + 1 ELSE @,
                          !.physicsFrame = @ + 1]
    /\ UNCHANGED <<compFramerate, workarea, compData, simulationStatus,
                   propsCheckDoneRef, animPlanRef, pc, physicsFrame,
                   nextCompFrame, frames, frameDataRef, tickLog, tickInfo,
                   frameMeta, runButton, currentCompId, timingPending,
                   playback>>
    /\ UNCHANGED utilVars

\* The end of such a calculateAllFrames: it publishes its frames and sets
\* "completed" all the same.
OrphanPublish ==
    /\ MainAtYield
    /\ orphan.pc = "loop"
    /\ orphan.physicsFrame
          > MathCeil((orphan.workarea[2] - orphan.workarea[1])
                     * SIMULATION_FPS, TimeBase)
    /\ frameDataRef' = orphan.frames
    /\ simulationStatus' = "completed"
    /\ orphan' = NoLoop
    /\ bodies' = IF simulationStatus = "completed" THEN bodies
                 ELSE InitializeBodies(bodies, compFramerate, workarea[1])
    /\ UNCHANGED <<compFramerate, workarea, compData, propsCheckDoneRef,
                   animPlanRef, pc, physicsFrame, nextCompFrame, frames,
                   engine, tickLog, tickInfo, frameMeta, runButton,
                   currentCompId, timingPending, playback>>
    /\ UNCHANGED utilVars

\* usePlayback's effect on "completed" with frames published.
PlaybackStart ==
    /\ MainAtYield /\ OrphanAtYield
    /\ simulationStatus = "completed"
    /\ frameDataRef # <<>>
    /\ ~playback.active
    /\ playback' = [active |-> TRUE, frameIndex |-> 0,
                    frames |-> frameDataRef, started |-> FALSE,
                    elapsed |-> 0]
    /\ UNCHANGED <<compFramerate, workarea, compData, simulationStatus,
                   propsCheckDoneRef, animPlanRef, pc, physicsFrame,
                   nextCompFrame, frames, frameDataRef, engine, bodies,
                   tickLog, tickInfo, frameMeta, runButton, currentCompId,
                   timingPending, orphan>>
    /\ UNCHANGED utilVars

\* playAnimation applies a recorded body state to the world body of the
\* same id.
ApplyBodyState(b, bodyState) ==
    SleepingSet(
       [setAngle(setPosition(b, bodyState.position), bodyState.angle)
          EXCEPT !.scaleX = Max2(bodyState.scale[1], 1),
                 !.scaleY = Max2(bodyState.scale[2], 1),
                 !.opacity = bodyState.opacity,
                 !.fillStyle = IF bodyState.fillStyle # ""
                               THEN bodyState.fillStyle ELSE @],
       FALSE)
ApplyFrame(world, frame) ==
    [l \in DOMAIN world |->
        LET found == {id \in DOMAIN frame.bodies :
                         frame.bodies[id].id = world[l].id}
        IN IF found = {} THEN world[l]
           ELSE ApplyBodyState(world[l],
                               frame.bodies[CHOOSE id \in found : TRUE])]

\* The milliseconds between two animation frames of the browser.
FrameGaps == {16, 50}

\* Math.min(Math.floor(elapsed / frameDuration), frames.length - 1), the
\* frame duration being 1000 / compFramerate.
clampedIndexOf_Ceil(elapsed, fps, n) ==
    LET targetFrameIndex == MathCeil(elapsed * fps, 1000)
    IN IF targetFrameIndex < n - 1 THEN targetFrameIndex ELSE n - 1

clampedIndexOf(elapsed, fps, n) ==
    LET targetFrameIndex == MathFloor(elapsed * fps, 1000)
    IN IF targetFrameIndex < n - 1 THEN targetFrameIndex ELSE n - 1

\* One call of playAnimation. The first call sets the start time; the
\* frame the elapsed time has reached is applied when it is another one;
\* at the last frame the playback ends, the status becomes "idle" and the
\* layout effect initialises the bodies.
PlaybackFrame ==
    /\ MainAtYield /\ OrphanAtYield
    /\ playback.active
    /\ \E gap \in FrameGaps :
       \E elapsed \in {IF playback.started THEN playback.elapsed + gap
                       ELSE 0} :
       \E clampedIndex \in {clampedIndexOf(elapsed, compFramerate,
                                           Len(playback.frames))} :
       \E last \in {~(clampedIndex < Len(playback.frames) - 1)} :
       \E world \in {IF clampedIndex # playback.frameIndex
                     THEN ApplyFrame(bodies,
                                     playback.frames[clampedIndex + 1])
                     ELSE bodies} :
          /\ playback' = [playback EXCEPT !.started = TRUE,
                                          !.elapsed = elapsed,
                                          !.frameIndex = clampedIndex,
                                          !.active = ~last]
          /\ simulationStatus' = IF last THEN "idle" ELSE simulationStatus
          /\ bodies' = IF last
                       THEN InitializeBodies(world, compFramerate,
                                             workarea[1])
                       ELSE world
    /\ UNCHANGED <<compFramerate, workarea, compData, propsCheckDoneRef,
                   animPlanRef, pc, physicsFrame, nextCompFrame, frames,
                   frameDataRef, engine, tickLog, tickInfo, frameMeta,
                   runButton, currentCompId, timingPending, orphan>>
    /\ UNCHANGED utilVars

\* The runner's own steps, taken when the other loop is at a yield.
PanelRunnerEffect == OrphanAtYield /\ RunnerEffect
PanelTick == OrphanAtYield /\ Tick
PanelPublish == OrphanAtYield /\ Publish
PanelHandleRunButton == MainAtYield /\ OrphanAtYield /\ HandleRunButton
PanelRunButtonStart == MainAtYield /\ OrphanAtYield /\ RunButtonStart

\* The panel starts with one composition: a work area from 0, a first
\* layer without keyframes.
PanelInit ==
    /\ Init
    /\ workarea[1] = 0
    /\ compData.layers[1].animatedProperties.position = None
    /\ compData.layers[1].animatedProperties.rotation = None
    /\ compData.layers[1].animatedProperties.scale = None

PanelNext ==
    \/ PanelHandleRunButton \/ PanelRunButtonStart
    \/ PanelRunnerEffect \/ PanelTick \/ PanelPublish
    \/ CompSwitch \/ TimingUpdate \/ OrphanTick \/ OrphanPublish
    \/ PlaybackStart \/ PlaybackFrame

PanelSpec == PanelInit /\ [][PanelNext]_vars

\* ========================================================================
\* Properties
\* ========================================================================
\* What the last tick did to the body of layer l, and the layer's plan.
InfoOf(l) == tickInfo[l]
PlanOf(l) == planLayer(animPlanRef, l)
\* The body of layer l was processed as an enabled body in the last tick.
Forcible(l) == tickInfo[l].ran /\ ~tickInfo[l].disabled
\* The number of composition frames that start inside the work area.
FramesOfWorkarea == MathCeil(workareaDuration * compFramerate, TimeBase)
\* Equality of the velocities <<nx, ny, d>> and of the rates <<n, d>>.
SameVelocity(v, w) == v[1] * w[3] = w[1] * v[3] /\ v[2] * w[3] = w[2] * v[3]
SameRate(v, w) == v[1] * w[2] = w[1] * v[2]

\* C1: the published FrameData sequence has strictly increasing times, its
\* k-th entry has time workAreaStart + k / compFramerate, and it holds an
\* entry for every composition frame of the work area, at every framerate.
C1_FrameSequence ==
    pc = "done" =>
      /\ \A k \in 1..Len(frameDataRef) :
            (frameDataRef[k].time - workarea[1]) * compFramerate
               = (k - 1) * TimeBase
      /\ \A k \in 1..(Len(frameDataRef) - 1) :
            frameDataRef[k].time < frameDataRef[k + 1].time
      /\ Len(frameDataRef) >= FramesOfWorkarea

\* C2: the number of published FrameData entries is the number of
\* composition frames of the work area, frame 0 included.
C2_FrameCount ==
    pc = "done" =>
      Len(frameDataRef)
         = MathRound(workareaDuration * compFramerate, TimeBase)

\* C3: the FrameData of every composition frame n up to the last position
\* keyframe index K of a layer comes from a tick that forced the position
\* from sample n (frame 0, captured before the loop, is not held against
\* the claim here).
C3_FrameShowsItsSample ==
    \A k \in 2..Len(frameMeta) : \A l \in DOMAIN bodies :
       LET n == frameMeta[k].frame
           i == frameMeta[k].info[l]
           ps == PlanOf(l).position
       IN (i.ran /\ ~i.disabled /\ ps # None /\ ps.last < Len(ps.values)
           /\ n <= ps.last)
          => i.pos.forced /\ i.idx = n

\* C4: a run that has entered "running" is never aborted by an error: as
\* long as the status is "running" the loop has its next step to take, and
\* when the loop has ended the full sequence is published and the status
\* is "completed".
C4_RunCompletes ==
    /\ simulationStatus = "running" => pc \in {"none", "loop"}
    /\ pc # "threw"
    /\ pc = "done" => simulationStatus = "completed" /\ frameDataRef = frames

\* C5: every tick does, in this order: the gravity update, then per body
\* the in/out check before any forcing, then position, rotation and scale
\* forcing, the physics properties and the body-type switch, then exactly
\* one Engine.update of 1000/50 ms, then the snapshot check.
StepRank(name) ==
    CASE name = "checkInOutStatus" -> 1
      [] name = "applyDisabledState" -> 2
      [] name = "forcePosition" -> 2
      [] name = "forceRotation" -> 3
      [] name = "forceScale" -> 4
      [] name = "updatePhysicsProperties" -> 5
      [] name = "handleBodyTypeSwitch" -> 6
      [] OTHER -> 0
C5_TickOrder ==
    tickLog # <<>> =>
      LET n == Len(tickLog)
      IN /\ n >= 3
         /\ tickLog[1].step = "updateGravity"
         /\ tickLog[n - 1].step = "Engine.update"
         /\ tickLog[n].step = "snapshot"
         /\ \A j \in 2..(n - 2) : tickLog[j].body \in DOMAIN bodies
         /\ \A j \in 2..(n - 2), k \in 2..(n - 2) :
               (j < k /\ tickLog[j].body = tickLog[k].body)
               => StepRank(tickLog[j].step) < StepRank(tickLog[k].step)
         /\ engine.lastDelta * SIMULATION_FPS = 1000
         /\ engine.timestamp = engine.steps * engine.lastDelta

C7_EnabledOnlyInRange ==
    \A k \in 2..Len(frameMeta) : \A l \in DOMAIN bodies :
       LET i == frameMeta[k].info[l]
           t == frames[k].time
           io == bodies[l].inOut
       IN (i.ran /\ ~i.disabled)
          => t >= io[1] /\ (io[2] = 0 \/ t < io[2])

\* The forcing rule the claim states for a series: at or before the last
\* keyframe, or flagged hold, or no keyframe inside the visible range.
ClaimedRule(series, hold, idx) ==
    \/ idx <= series.last
    \/ hold
    \/ ~(series.last >= 0 /\ series.last < expectedCompFrames)
ScaleOf(pct) == <<Max2(pct[1] * ScaleUnit, 1), Max2(pct[2] * ScaleUnit, 1)>>

\* C8 as stated: for each of position, rotation and scale the transform is
\* hard-set from the sample at the current index, and the velocity zeroed,
\* exactly when the claimed rule holds.
C8_AsStated ==
    \A l \in DOMAIN bodies :
       Forcible(l) =>
         LET i == InfoOf(l)
             p == PlanOf(l).position
             r == PlanOf(l).rotation
             s == PlanOf(l).scale
         IN /\ p # None =>
                 /\ i.pos.forced <=> ClaimedRule(p, p.isHold, i.idx)
                 /\ i.pos.forced => /\ bodies[l].position = At(p.values, i.idx)
                                    /\ i.velocity = ZeroVelocity
            /\ r # None =>
                 /\ i.rot.forced <=> ClaimedRule(r, r.isHold, i.idx)
                 /\ i.rot.forced => /\ bodies[l].angle = At(r.values, i.idx)
                                    /\ i.angularVelocity = ZeroAngularVelocity
            /\ s # None =>
                 /\ i.scale <=> ClaimedRule(s, FALSE, i.idx)
                 /\ i.scale => <<bodies[l].scaleX, bodies[l].scaleY>>
                                 = ScaleOf(At(s.values, i.idx))

\* C8, amended: position and rotation are hard-set from the sample at the
\* current index exactly when the index is inside the series and the rule
\* holds, and the velocity is then zero unless the index is the last
\* keyframe; scale is hard-set exactly when the index is inside the series
\* and at or before its last keyframe, whatever the hold flag and the
\* place of the last keyframe; otherwise the transform is left alone.
C8_Forcing ==
    \A l \in DOMAIN bodies :
       Forcible(l) =>
         LET i == InfoOf(l)
             p == PlanOf(l).position
             r == PlanOf(l).rotation
             s == PlanOf(l).scale
         IN /\ p # None =>
                 /\ i.pos.forced <=> (ClaimedRule(p, p.isHold, i.idx)
                                      /\ i.idx < Len(p.values))
                 /\ i.pos.forced => bodies[l].position = At(p.values, i.idx)
                 /\ (i.pos.forced /\ i.idx # p.last)
                       => i.pos.zeroed /\ i.velocity = ZeroVelocity
            /\ p = None => ~i.pos.forced
            /\ r # None =>
                 /\ i.rot.forced <=> (ClaimedRule(r, r.isHold, i.idx)
                                      /\ i.idx < Len(r.values))
                 /\ i.rot.forced => bodies[l].angle = At(r.values, i.idx)
                 /\ (i.rot.forced /\ i.idx # r.last)
                       => i.rot.zeroed
                          /\ i.angularVelocity = ZeroAngularVelocity
            /\ r = None => ~i.rot.forced
            /\ s # None =>
                 /\ i.scale <=> (i.idx <= s.last /\ i.idx < Len(s.values))
                 /\ i.scale => <<bodies[l].scaleX, bodies[l].scaleY>>
                                 = ScaleOf(At(s.values, i.idx))
            /\ s = None => ~i.scale

\* A position still forced after its last keyframe because of the hold
\* flag, with the velocity zeroed.
C8_Witness ==
    \E l \in DOMAIN bodies :
       /\ Forcible(l) /\ PlanOf(l).position # None
       /\ PlanOf(l).position.isHold
       /\ PlanOf(l).position.last >= 0
       /\ InfoOf(l).idx > PlanOf(l).position.last
       /\ InfoOf(l).pos.forced /\ InfoOf(l).velocity = ZeroVelocity

\* The velocity the claim states for the last keyframe K of a series.
ClaimedVelocity(series, fps) ==
    LET K == series.last
        prev == IF K > 0 THEN At(series.values, K - 1) ELSE series.pre
        cur == At(series.values, K)
    IN <<(cur[1] - prev[1]) * SIMULATION_FPS,
         (cur[2] - prev[2]) * SIMULATION_FPS, fps>>

\* C9 as stated: with last keyframe K and samples v[K - 1], v[K], at index
\* K the velocity is (v[K] - v[K-1]) * (tick rate / framerate), the
\* pre-value standing in for v[K-1] when K = 0, and at index K + 1 the
\* position is not forced.
C9_AsStated ==
    \A l \in DOMAIN bodies :
       Forcible(l) =>
         LET i == InfoOf(l)
             p == PlanOf(l).position
         IN (p # None /\ p.last >= 0 /\ p.last < Len(p.values)) =>
              /\ i.idx = p.last
                    => SameVelocity(i.velocity,
                                    ClaimedVelocity(p, compFramerate))
              /\ i.idx = p.last + 1 => ~i.pos.forced

\* C9, amended: the same velocity at index K; at index K + 1 the position
\* is no longer forced unless the series is flagged hold and has a sample
\* at K + 1, and then it is hard-set with the velocity zeroed.
C9_Handoff ==
    \A l \in DOMAIN bodies :
       Forcible(l) =>
         LET i == InfoOf(l)
             p == PlanOf(l).position
         IN (p # None /\ p.last >= 0 /\ p.last < Len(p.values)) =>
              /\ i.idx = p.last
                    => /\ i.pos.handoff
                       /\ SameVelocity(i.velocity,
                                       ClaimedVelocity(p, compFramerate))
              /\ i.idx = p.last + 1
                    => /\ i.pos.forced
                          <=> (p.isHold /\ i.idx < Len(p.values))
                       /\ i.pos.forced => i.velocity = ZeroVelocity
                       /\ ~i.pos.handoff

\* The tick of a last keyframe K > 0: the velocity has been derived from
\* the two samples.
C9_Witness ==
    \E l \in DOMAIN bodies :
       /\ Forcible(l) /\ PlanOf(l).position # None
       /\ PlanOf(l).position.last > 0
       /\ InfoOf(l).idx = PlanOf(l).position.last
       /\ InfoOf(l).pos.handoff
       /\ InfoOf(l).velocity # ZeroVelocity

\* C10: no layer with a position series stops being position-forced
\* before composition frame physicsStartFrame.
C10_GlobalRelease ==
    \A l \in DOMAIN bodies :
       Forcible(l) =>
         LET i == InfoOf(l)
             p == PlanOf(l).position
         IN (p # None /\ i.idx <= animPlanRef.physicsStartFrame
             /\ i.idx < Len(p.values))
            => i.pos.forced

\* A step of the loop (one tick), as opposed to the steps around it.
IsTick == pc = "loop" /\ pc' # "done"
\* The rounded bodyType sample a tick at index idx sees (None when the
\* series has no sample there).
BodyTypeSeen(bt, idx) ==
    IF idx < Len(bt.values) THEN RoundBodyType(At(bt.values, idx)) ELSE None
\* The rounded bodyType sample the previous tick saw: the pre-value when
\* there was no previous tick.
BodyTypeBefore(bt, l) ==
    IF tickInfo[l].ran THEN BodyTypeSeen(bt, tickInfo[l].idx)
    ELSE RoundBodyType(bt.pre)

\* C11: a tick toggles a body between static and dynamic only when the
\* rounded bodyType sample of the tick differs from the one of the previous
\* tick (the pre-value at the first tick) and the body is enabled in the
\* tick; every such change on an enabled body toggles it, once.
C11_ToggleOnChange ==
    [][IsTick =>
         \A l \in DOMAIN bodies :
            LET bt == PlanOf(l).bodyType
                now == tickInfo'[l]
                changed == /\ bt # None
                           /\ now.idx < Len(bt.values)
                           /\ now.idx <= bt.last
                           /\ BodyTypeSeen(bt, now.idx) # BodyTypeBefore(bt, l)
            IN now.ran =>
                 /\ now.switched => changed /\ ~now.disabled
                 /\ (changed /\ ~now.disabled) => now.switched]_vars

\* C12: the entry activation of a body runs in a tick exactly when the
\* tick's composition frame (a frame of the work area) is the body's
\* in-frame and that in-frame is after the work-area start.
C12_ActivationAtInFrame ==
    \A l \in DOMAIN bodies :
       LET i == InfoOf(l)
           io == bodies[l].inOut
       IN (i.ran /\ i.idx + 1 <= expectedCompFrames) =>
            (i.activated <=> (/\ io[1] > workarea[1]
                              /\ frameTime(i.idx + 1) = io[1]))

\* The index is within the series' own last-keyframe window.
WithinWindow(series, idx) ==
    series # None /\ idx <= series.last /\ idx < Len(series.values)

\* C13: the material step sets density, friction and restitution from
\* their series while the index is within that series' window and leaves
\* them unchanged otherwise; it sets the air friction from its series
\* within the window, replaces it by the drag baseline once that series is
\* exhausted, and leaves it unchanged when the body has no such series.
C13_MaterialWindow ==
    \A l \in DOMAIN bodies :
       LET i == InfoOf(l)
           lp == PlanOf(l)
       IN (Forcible(l) /\ i.mat # None) =>
            /\ i.mat.after.density =
                  IF WithinWindow(lp.density, i.idx)
                  THEN Max2(At(lp.density.values, i.idx) * 1000, 1)
                  ELSE i.mat.before.density
            /\ i.mat.after.friction =
                  IF WithinWindow(lp.friction, i.idx)
                  THEN At(lp.friction.values, i.idx)
                  ELSE i.mat.before.friction
            /\ i.mat.after.restitution =
                  IF WithinWindow(lp.restitution, i.idx)
                  THEN At(lp.restitution.values, i.idx)
                  ELSE i.mat.before.restitution
            /\ i.mat.after.frictionAir =
                  IF WithinWindow(lp.frictionAir, i.idx)
                  THEN At(lp.frictionAir.values, i.idx)
                  ELSE IF lp.frictionAir # None
                  THEN i.mat.frictionAirDefault
                  ELSE i.mat.before.frictionAir

\* The plugin object of a body, as a reader of a frame sees it through the
\* reference the frame holds.
PluginData(b) ==
    [scaleX |-> b.scaleX, scaleY |-> b.scaleY,
     initialProperties |-> b.initialProperties,
     dynamicProperties |-> b.dynamicProperties]

\* The values a frame records, the plugin read through its reference.
FrameValues(frame, world) ==
    [id \in DOMAIN frame.bodies |->
        [state |-> frame.bodies[id],
         plugin |-> PluginData(world[frame.bodies[id].pluginOf])]]

\* C16: a step of the run changes none of the values recorded by a frame
\* that is already in the sequence (position, angle, scale, static flag,
\* style and plugin data of every body).
C16_FramesImmutable ==
    [][\A n \in 1..Len(frames) :
          n <= Len(frames') =>
             FrameValues(frames'[n], bodies') = FrameValues(frames[n], bodies)]_vars

\* Composition frame number of a composition time at the run's framerate.
FrameOf(t) == MathRound(t * compFramerate, TimeBase)

\* C17: for a body whose in-frame is after the work-area start, the gating
\* of a tick reports disabled exactly when the tick's composition frame is
\* before the in-frame or at or after the out-frame.
C17_InOutStatus ==
    \A l \in DOMAIN bodies :
       LET i == InfoOf(l)
           io == bodies[l].inOut
           f == FrameOf(workarea[1]) + i.idx + 1
       IN (i.ran /\ FrameOf(io[1]) > FrameOf(workarea[1])) =>
            (i.disabled <=> (\/ f < FrameOf(io[1])
                             \/ io[2] # 0 /\ f >= FrameOf(io[2])))

\* The tick's composition frame lies outside the layer's in/out range.
OutsideRange(l) ==
    LET io == bodies[l].inOut
        f == FrameOf(workarea[1]) + InfoOf(l).idx + 1
    IN \/ f < FrameOf(io[1])
       \/ io[2] # 0 /\ f >= FrameOf(io[2])

\* C18: after the gating step of a tick every body outside its in/out
\* range is asleep, fully transparent (opacity 0) and has collision
\* category and mask zero. The gating step is the last step of the tick for
\* a disabled body and the engine leaves a sleeping body alone.
C18_DisabledState ==
    \A l \in DOMAIN bodies :
       (InfoOf(l).ran /\ OutsideRange(l)) =>
          /\ bodies[l].isSleeping
          /\ bodies[l].opacity = 0
          /\ bodies[l].category = 0
          /\ bodies[l].mask = 0

\* C19: a tick that switches a body to dynamic leaves its mass, inertia,
\* friction, air friction and restitution at the dynamic values of its
\* initial-properties record and its velocities zero; a tick that switches
\* it to static leaves its dynamic-properties record holding the values the
\* body had before the switch, and the body static.
C19_SetBodyType ==
    \A l \in DOMAIN bodies :
       LET i == InfoOf(l)
           b == bodies[l]
           ip == b.initialProperties
       IN (i.ran /\ i.switched) =>
            IF b.isStatic
            THEN b.dynamicProperties = i.typeBefore
            ELSE /\ ip.mass # Infinity /\ ip.inertia # Infinity
                 /\ b.mass = ip.mass /\ b.inertia = ip.inertia
                 /\ b.friction = ip.friction
                 /\ b.frictionAir = ip.frictionAir
                 /\ b.restitution = ip.restitution
                 /\ b.velocity = ZeroVelocity
                 /\ b.angularVelocity = ZeroAngularVelocity

\* The last-keyframe indices of the position series of the composition's
\* layers, read from the host data.
PositionLasts ==
    {compData.layers[l].animatedProperties.position.lastKeyFrame.frame :
        l \in {k \in DOMAIN compData.layers :
                 /\ compData.layers[k].animatedProperties # None
                 /\ HasKey(compData.layers[k].animatedProperties.position)}}
MaxOf(S) == CHOOSE x \in S : \A y \in S : y <= x

\* C20 as stated: the plan's physicsStartFrame is the maximum last-keyframe
\* index over the layers' position series, or -1 when no layer has one;
\* no other series enters it.
C20_AsStated ==
    animPlanRef # None =>
       animPlanRef.physicsStartFrame =
          IF PositionLasts = {} THEN 0 - 1 ELSE MaxOf(PositionLasts)

\* C20: the plan's physicsStartFrame is the larger of -1 and the maximum
\* last-keyframe index over the layers' position series (-1 when no layer
\* has one); no other series enters it.
C20_PhysicsStartFrame ==
    animPlanRef # None =>
       animPlanRef.physicsStartFrame = MaxOf(PositionLasts \cup {0 - 1})

\* Both layers have a position series, with different last keyframes, and
\* a rotation series ends after both.
C20_Witness ==
    /\ animPlanRef # None
    /\ \A l \in Layers : PlanOf(l).position # None
    /\ PlanOf(1).position.last # PlanOf(2).position.last
    /\ \E l \in Layers :
          /\ PlanOf(l).rotation # None
          /\ PlanOf(l).rotation.last > animPlanRef.physicsStartFrame
    /\ animPlanRef.physicsStartFrame >= 0

\* ------------------------------------------------------------------------
\* The plan builder over raw host data of every shape: a layer without
\* animatedProperties, a property not sampled, a sampled property for
\* which getLastKey returned null, and a sampled property with its marker.
\* ------------------------------------------------------------------------
RawOptions(pre, values) ==
    {None,
     [preValue |-> pre, values |-> values, lastKeyFrame |-> None],
     RawSeries(pre, values, 1, FALSE)}

RawAps(l, n) ==
    {None} \cup
    {[position |-> p, rotation |-> r, scale |-> None, anchorPoint |-> None,
      density |-> d, friction |-> None, frictionAir |-> None,
      restitution |-> None, bodyType |-> None] :
        p \in RawOptions(PosPre(l), [k \in 1..n |-> PosSample(l, k - 1)]),
        r \in RawOptions(RotPre(l), [k \in 1..n |-> RotSample(l, k - 1)]),
        d \in RawOptions(1, [k \in 1..n |-> DensitySample(l, k - 1)])}

\* The world controller's gravity angle is keyframed: one sample per
\* frame of the work area.
GravityAngleSeries(n) == [values |-> [k \in 1..n |-> 90 + 10 * (k - 1)]]

RawLayer(l, ap) ==
    [inOut |-> <<0, 0>>, isStatic |-> FALSE, bodyType |-> 1,
     layerPosition |-> <<0, 0>>, layerRotation |-> 0,
     layerScale |-> <<100, 100>>, animatedProperties |-> ap]

PlanInit ==
    /\ compFramerate \in FpsSet
    /\ workarea = <<0, 2 * DurStep>>
    /\ \E ap1 \in RawAps(1, totalFrames(compFramerate, workarea)),
          ap2 \in RawAps(2, totalFrames(compFramerate, workarea)) :
          compData = [CompOf(1, None, None, None, None, <<0, 0>>, 1)
                        EXCEPT !.layers = [l \in Layers |->
                                 RawLayer(l, IF l = 1 THEN ap1 ELSE ap2)],
                               !.animatedGravityProperties.gravityAngle =
                                  GravityAngleSeries(
                                     totalFrames(compFramerate, workarea))]
    /\ simulationStatus = "idle"
    /\ propsCheckDoneRef = FALSE
    /\ animPlanRef = None
    /\ pc = "none"
    /\ physicsFrame = 0
    /\ nextCompFrame = 1
    /\ frames = <<>>
    /\ frameDataRef = <<>>
    /\ engine = Engine0
    /\ bodies = InitializeBodies(
                    [l \in Layers |-> NewBody(l, compData.layers[l])],
                    compFramerate, workarea[1])
    /\ tickLog = <<>>
    /\ tickInfo = [l \in Layers |-> NoInfo]
    /\ frameMeta = <<>>
    /\ runButton = "idle"
    /\ currentCompId = 1
    /\ timingPending = FALSE
    /\ orphan = NoLoop
    /\ playback = NoPlayback
    /\ synthesis = None
    /\ decomposition = None
    /\ projectState = None

PlanSpec == PlanInit /\ [][Next]_vars

\* ------------------------------------------------------------------------
\* C21: what the plan holds
\* ------------------------------------------------------------------------
Props == {"position", "rotation", "scale", "anchorPoint", "density",
          "friction", "frictionAir", "restitution", "bodyType"}
\* The raw data of property p of layer l carries a last-keyframe marker.
RawMarker(l, p) ==
    /\ compData.layers[l].animatedProperties # None
    /\ compData.layers[l].animatedProperties[p] # None
    /\ compData.layers[l].animatedProperties[p].lastKeyFrame # None
\* The plan holds a series for property p of layer l.
SeriesInPlan(l, p) ==
    /\ l \in DOMAIN animPlanRef.layers
    /\ animPlanRef.layers[l][p] # None

\* C21: in the plan built, a series is present for a layer exactly when
\* the raw data of that property carries a last-keyframe marker, and a
\* layer is present exactly when one of its series was copied.
C21_PlanContents ==
    animPlanRef # None =>
       \A l \in DOMAIN compData.layers :
          /\ \A p \in Props : SeriesInPlan(l, p) <=> RawMarker(l, p)
          /\ l \in DOMAIN animPlanRef.layers
                <=> \E p \in Props : RawMarker(l, p)

\* A plan built from a layer with a marked and an unmarked series beside
\* a layer whose sampled series all lack the marker.
C21_Witness ==
    /\ animPlanRef # None
    /\ RawMarker(1, "rotation")
    /\ SeriesInPlan(1, "rotation")
    /\ compData.layers[1].animatedProperties.position # None
    /\ ~RawMarker(1, "position")
    /\ compData.layers[2].animatedProperties # None
    /\ compData.layers[2].animatedProperties.density # None
    /\ 2 \notin DOMAIN animPlanRef.layers

\* ------------------------------------------------------------------------
\* C14, C15: the runner and the rest of the panel
\* ------------------------------------------------------------------------
\* A calculateAllFrames with ticks still to execute.
MainTicksLeft == pc = "loop" /\ physicsFrame <= totalPhysicsFrames
OrphanTicksLeft ==
    /\ orphan.pc = "loop"
    /\ orphan.physicsFrame
          <= MathCeil((orphan.workarea[2] - orphan.workarea[1])
                      * SIMULATION_FPS, TimeBase)
LoopInProgress == pc = "loop" \/ orphan.pc = "loop"
SameWorldBodies ==
    /\ DOMAIN bodies' = DOMAIN bodies
    /\ \A l \in DOMAIN bodies : bodies'[l].id = bodies[l].id

\* C14: during pre-integration exactly one loop writes to the world: no
\* step leaves two loops in progress, and while a loop is in progress no
\* step adds, removes or replaces a body of the world.
C14_ExclusiveWorld ==
    [][/\ ~(pc' = "loop" /\ orphan'.pc = "loop")
       /\ (LoopInProgress => SameWorldBodies)]_vars

\* C15: the playback is never active while a pre-integration loop still
\* has ticks to execute.
C15_NoPlaybackDuringRun ==
    playback.active => ~(MainTicksLeft \/ OrphanTicksLeft)

\* ------------------------------------------------------------------------
\* C22: the playback's frame index
\* ------------------------------------------------------------------------
\* The same playback goes on, or has just ended, across the step.
SamePlayback == playback.active /\ playback'.frames = playback.frames
LastIndex == Len(playback.frames) - 1

\* C22: during playback the frame index is floor(elapsed / frame duration)
\* clamped to the last frame, it never decreases, and on reaching the last
\* frame the playback stops and the status becomes idle.
C22_FrameIndex ==
    [][SamePlayback =>
         /\ playback'.started =>
               playback'.frameIndex
                 = Min2((playback'.elapsed * compFramerate') \div 1000,
                        LastIndex)
         /\ playback'.frameIndex >= playback.frameIndex
         /\ (playback'.started /\ playback'.frameIndex = LastIndex)
               => (~playback'.active /\ simulationStatus' = "idle")]_vars

\* A playback of three frames or more has ended on its last frame, the
\* elapsed time being past the end (the index was clamped).
C22_Witness ==
    /\ ~playback.active
    /\ playback.started
    /\ Len(playback.frames) >= 3
    /\ playback.frameIndex = Len(playback.frames) - 1
    /\ (playback.elapsed * compFramerate) \div 1000 > playback.frameIndex
    /\ simulationStatus = "idle"
    /\ bodies # <<>>

\* ------------------------------------------------------------------------
\* C26: a loop whose status was taken away
\* ------------------------------------------------------------------------
\* A calculateAllFrames reaches its end in this step: it sets frameDataRef
\* and the status "completed".
LoopPublishes ==
    \/ pc = "loop" /\ pc' = "done"
    \/ orphan.pc = "loop" /\ orphan'.pc = "none"

\* C26: a loop started under "running" whose status has been moved away
\* from "running" before it finished does not publish its frames or set
\* "completed" afterwards: a loop publishes only while the status is still
\* "running".
C26_NoPublishAfterLeavingRunning ==
    [][LoopPublishes => simulationStatus = "running"]_vars

\* ------------------------------------------------------------------------
\* C27: the series elements the forcing reads
\* ------------------------------------------------------------------------
\* The indices at which the last tick's forcePosition / forceRotation read
\* the series of layer l: the forced sample, and at the last keyframe the
\* sample and the one before it.
ReadsOf(l, series, forced) ==
    (IF forced THEN {InfoOf(l).idx} ELSE {})
    \cup (IF series # None /\ InfoOf(l).idx = series.last
          THEN {InfoOf(l).idx}
               \cup (IF InfoOf(l).idx > 0 THEN {InfoOf(l).idx - 1} ELSE {})
          ELSE {})
InRange(l, series, forced) ==
    series # None =>
       \A k \in ReadsOf(l, series, forced) :
          0 <= k /\ k <= Len(series.values) - 1

\* C27: forcePosition and forceRotation read their series only at indices
\* within 0..values.length-1, whatever last-keyframe index the host gave
\* and whatever composition index the loop has reached.
C27_ReadsInRange ==
    \A l \in DOMAIN bodies :
       Forcible(l) =>
          /\ InRange(l, PlanOf(l).position, InfoOf(l).pos.forced)
          /\ InRange(l, PlanOf(l).rotation, InfoOf(l).rot.forced)

\* ------------------------------------------------------------------------
\* C28: the frame index of the gravity update
\* ------------------------------------------------------------------------
\* C28: in every tick the composition-frame index at which the animated
\* gravity series is sampled is the index the bodies are forced at.
C28_GravityIndex ==
    \A l \in DOMAIN bodies :
       (InfoOf(l).ran /\ compData # None
        /\ compData.animatedGravityProperties.gravityAngle # None)
          => engine.gravityIdx = InfoOf(l).idx

\* ------------------------------------------------------------------------
\* The utilities on their own: no composition is loaded, the runner rests
\* ------------------------------------------------------------------------
RunnerAtRest ==
    /\ compFramerate = 30
    /\ workarea = <<0, DurStep>>
    /\ compData = None
    /\ simulationStatus = "idle"
    /\ propsCheckDoneRef = FALSE
    /\ animPlanRef = None
    /\ pc = "none"
    /\ physicsFrame = 0
    /\ nextCompFrame = 1
    /\ frames = <<>>
    /\ frameDataRef = <<>>
    /\ engine = Engine0
    /\ bodies = <<>>
    /\ tickLog = <<>>
    /\ tickInfo = <<>>
    /\ frameMeta = <<>>
    /\ runButton = "idle"
    /\ currentCompId = 1
    /\ timingPending = FALSE
    /\ orphan = NoLoop
    /\ playback = NoPlayback

\* ------------------------------------------------------------------------
\* Decomposition (utils/geometry.ts, with simplify-js and poly-decomp)
\* ------------------------------------------------------------------------
\* A point is <<x, y>>; a squared distance is the exact rational <<n, d>>.
crossProduct(o, a, b) ==
    (a[1] - o[1]) * (b[2] - o[2]) - (a[2] - o[2]) * (b[1] - o[1])

SqDist(p, q) == (p[1] - q[1]) * (p[1] - q[1]) + (p[2] - q[2]) * (p[2] - q[2])
RatGreater(a, b) == a[1] * b[2] > b[1] * a[2]

\* simplify-js, getSqSegDist: the squared distance from p to the segment
\* p1-p2; t = n/d is the position of the projection on the segment.
getSqSegDist(p, p1, p2) ==
    LET dx == p2[1] - p1[1]
        dy == p2[2] - p1[2]
        n == (p[1] - p1[1]) * dx + (p[2] - p1[2]) * dy
        d == dx * dx + dy * dy
        c == (p[1] - p1[1]) * dy - (p[2] - p1[2]) * dx
    IN IF d # 0 /\ n > d THEN <<SqDist(p, p2), 1>>
       ELSE IF d # 0 /\ n > 0 THEN <<c * c, d>>
       ELSE <<SqDist(p, p1), 1>>

\* simplify-js, simplifyDPStep: the points kept strictly between first and
\* last; the split point is the first one of the greatest distance above
\* the tolerance.
RECURSIVE simplifyDPStep(_, _, _, _)
simplifyDPStep(points, first, last, sqTolerance) ==
    LET dist(i) == getSqSegDist(points[i], points[first], points[last])
        over == {i \in (first + 1)..(last - 1) :
                    RatGreater(dist(i), <<sqTolerance, 1>>)}
    IN IF over = {} THEN <<>>
       ELSE LET index == CHOOSE i \in over : \A j \in over :
                            /\ j < i => RatGreater(dist(i), dist(j))
                            /\ j > i => ~RatGreater(dist(j), dist(i))
            IN (IF index - first > 1
                THEN simplifyDPStep(points, first, index, sqTolerance)
                ELSE <<>>)
               \o <<points[index]>>
               \o (IF last - index > 1
                   THEN simplifyDPStep(points, index, last, sqTolerance)
                   ELSE <<>>)

\* simplify(points, tolerance, true): Douglas-Peucker only; the first and
\* the last point are always kept.
simplify(points, tolerance) ==
    IF Len(points) <= 2 THEN points
    ELSE <<points[1]>>
         \o simplifyDPStep(points, 1, Len(points), tolerance * tolerance)
         \o <<points[Len(points)]>>

Reverse(seq) == [i \in 1..Len(seq) |-> seq[Len(seq) + 1 - i]]
\* polygon[i] with the index taken modulo the length (1-based here).
PolygonAt(polygon, i) == polygon[((i - 1) % Len(polygon)) + 1]

\* poly-decomp, makeCCW: the polygon is reversed unless it turns left at
\* its bottom-right vertex.
makeCCW(polygon) ==
    LET br == CHOOSE i \in 1..Len(polygon) : \A j \in 1..Len(polygon) :
                 j = i \/ polygon[i][2] < polygon[j][2]
                       \/ (polygon[i][2] = polygon[j][2]
                           /\ (polygon[i][1] > polygon[j][1]
                               \/ (polygon[i][1] = polygon[j][1] /\ i < j)))
        isLeft == crossProduct(PolygonAt(polygon, br - 1 + Len(polygon)),
                               polygon[br], PolygonAt(polygon, br + 1)) > 0
    IN IF isLeft THEN polygon ELSE Reverse(polygon)

\* poly-decomp, lineSegmentsIntersect: parallel segments never intersect;
\* otherwise both parameters s and t lie in [0, 1].
lineSegmentsIntersect(p1, p2, q1, q2) ==
    LET dx == p2[1] - p1[1]
        dy == p2[2] - p1[2]
        da == q2[1] - q1[1]
        db == q2[2] - q1[2]
        den == da * dy - db * dx
        sn == dx * (q1[2] - p1[2]) + dy * (p1[1] - q1[1])
        tn == da * (p1[2] - q1[2]) + db * (q1[1] - p1[1])
        Unit(n, d) == IF d > 0 THEN 0 <= n /\ n <= d ELSE d <= n /\ n <= 0
    IN den # 0 /\ Unit(sn, den) /\ Unit(tn, 0 - den)

\* poly-decomp, isSimple: no two non-adjacent edges intersect.
isSimple(path) ==
    LET n == Len(path)
    IN /\ \A i \in 1..(n - 1) : \A j \in 1..(i - 2) :
             ~lineSegmentsIntersect(path[i], path[i + 1],
                                    path[j], path[j + 1])
       /\ \A i \in 2..(n - 2) :
             ~lineSegmentsIntersect(path[1], path[n], path[i], path[i + 1])

\* poly-decomp, quickDecomp of a polygon without a reflex vertex: the
\* polygon itself is the only part.  (The vertex sets of this model are in
\* convex position, so a simple polygon over them has no reflex vertex.)
quickDecomp(polygon) == <<polygon>>

\* The comparator of computeConvexHull's sort: by the angle around the
\* pivot (all angles are in [0, PI), so the cross product orders them),
\* then by the distance from the pivot.
HullBefore(pivot, a, b) ==
    LET c == crossProduct(pivot, a, b)
    IN c > 0 \/ (c = 0 /\ SqDist(a, pivot) < SqDist(b, pivot))

RECURSIVE SortByAngle(_, _)
SortByAngle(pivot, pts) ==
    IF pts = {} THEN <<>>
    ELSE LET first == CHOOSE a \in pts :
                         \A b \in pts \ {a} : HullBefore(pivot, a, b)
         IN <<first>> \o SortByAngle(pivot, pts \ {first})

\* The scan of computeConvexHull: pop while the turn is not to the left.
RECURSIVE PopHull(_, _)
PopHull(hull, point) ==
    IF Len(hull) > 1
       /\ crossProduct(hull[Len(hull) - 1], hull[Len(hull)], point) <= 0
    THEN PopHull(SubSeq(hull, 1, Len(hull) - 1), point)
    ELSE hull

RECURSIVE ScanHull(_, _)
ScanHull(hull, sortedPoints) ==
    IF sortedPoints = <<>> THEN hull
    ELSE ScanHull(Append(PopHull(hull, Head(sortedPoints)),
                         Head(sortedPoints)),
                  Tail(sortedPoints))

computeConvexHull(points) ==
    IF Len(points) < 3 THEN points
    ELSE LET bottom == CHOOSE i \in 1..Len(points) :
                          \A j \in 1..Len(points) :
                             j = i \/ points[i][2] < points[j][2]
                                   \/ (points[i][2] = points[j][2]
                                       /\ points[i][1] < points[j][1])
             pivot == points[bottom]
         IN ScanHull(<<pivot>>,
                     SortByAngle(pivot,
                        {points[i] : i \in 1..Len(points)} \ {pivot}))

\* decomposeConcaveShape: fewer than three vertices give no part; the
\* vertices are simplified with tolerance 4 (the input is kept when fewer
\* than three points remain) and wound counterclockwise; a simple polygon
\* is decomposed, any other is replaced by the convex hull of the
\* simplified points.
SimplifyTolerance == 4
decomposeConcaveShape(vertices) ==
    IF Len(vertices) < 3 THEN <<>>
    ELSE LET simplified == simplify(vertices, SimplifyTolerance)
             pointsToUse == IF Len(simplified) >= 3 THEN simplified
                            ELSE vertices
             points == makeCCW(pointsToUse)
         IN IF isSimple(points)
            THEN SelectSeq(quickDecomp(points), LAMBDA part : Len(part) >= 3)
            ELSE LET externalPoints == computeConvexHull(points)
                 IN IF Len(externalPoints) < 3 THEN <<>>
                    ELSE <<externalPoints>>

\* The vertices handed to decomposeConcaveShape: two to five different
\* points of a square with one point 2 px outside its right side.
VertexPool == {<<0, 0>>, <<20, 0>>, <<20, 20>>, <<0, 20>>, <<22, 10>>}
VertexLists ==
    UNION {{v \in [1..n -> VertexPool] :
               \A i, j \in 1..n : i # j => v[i] # v[j]} : n \in 2..5}

DecompInit ==
    /\ RunnerAtRest
    /\ synthesis = None
    /\ projectState = None
    /\ \E v \in VertexLists : decomposition = [vertices |-> v, called |-> FALSE,
                                               parts |-> <<>>]

DecomposeConcaveShape ==
    /\ decomposition # None
    /\ ~decomposition.called
    /\ \E parts \in {decomposeConcaveShape(decomposition.vertices)} :
          decomposition' = [decomposition EXCEPT !.called = TRUE,
                                                !.parts = parts]
    /\ UNCHANGED runnerVars
    /\ UNCHANGED <<synthesis, projectState>>

DecompSpec == DecompInit /\ [][DecomposeConcaveShape]_vars

\* A point is inside or on the boundary of a counterclockwise convex
\* polygon.
InConvex(p, hull) ==
    \A i \in 1..Len(hull) :
       crossProduct(hull[i], PolygonAt(hull, i + 1), p) >= 0

\* C23: for a non-simple input polygon decomposeConcaveShape returns
\* exactly one part, and that part contains every input point.
C23_HullFallback ==
    (decomposition # None /\ decomposition.called
     /\ Len(decomposition.vertices) >= 3
     /\ ~isSimple(decomposition.vertices))
      => /\ Len(decomposition.parts) = 1
         /\ \A i \in 1..Len(decomposition.vertices) :
               InConvex(decomposition.vertices[i], decomposition.parts[1])

\* ------------------------------------------------------------------------
\* The merge of a host snapshot (services: fetchLayerDataService)
\* ------------------------------------------------------------------------
CompIds == {1, 2}
ProjectLayerIds == {1, 2}

\* A layer as the panel holds it (with the matterObject the panel added)
\* and as the host sends it.
PanelLayer == [data |-> "old", matterObject |-> TRUE]
HostLayer == [data |-> "new", matterObject |-> FALSE]
\* { ...existingLayer, ...newLayer }
MergedLayer(existingLayer, newLayer) ==
    [data |-> newLayer.data,
     matterObject |-> existingLayer.matterObject \/ newLayer.matterObject]

LayerMaps(layer) ==
    UNION {[S -> {layer}] : S \in SUBSET ProjectLayerIds}
\* The compositions state: composition id -> composition.
PanelComps ==
    UNION {[S -> [layers : LayerMaps(PanelLayer),
                  animatedGravityProperties : BOOLEAN]] :
             S \in SUBSET CompIds}
\* What evalTS("fetchLayerData") answers: per composition the layers (or
\* no layers key) and possibly the animated gravity.
HostComps ==
    UNION {[S -> {c \in [hasLayers : BOOLEAN,
                         layers : LayerMaps(HostLayer),
                         animatedGravityProperties : BOOLEAN] :
                     c.hasLayers \/ c.layers = <<>>}] :
             S \in SUBSET CompIds}

\* newData: every composition of the answer gets a layers object.
NewDataOf(newCompData) ==
    [c \in DOMAIN newCompData |->
        [layers |-> newCompData[c].layers,
         animatedGravityProperties |->
            newCompData[c].animatedGravityProperties]]

\* The first pass: a previous composition whose new data has no layers is
\* deleted from updatedData.
ClearedComps(prevCompData, newData) ==
    {c \in DOMAIN prevCompData :
        c \in DOMAIN newData /\ DOMAIN newData[c].layers = {}}

\* The second pass: a composition object of newData always has keys (at
\* least layers), so it is merged into the existing composition or, when
\* updatedData has none, stored as it is.
MergeComp(updatedData, newData, c) ==
    IF c \in DOMAIN updatedData
    THEN LET existingComp == updatedData[c]
         IN [layers |->
                [l \in DOMAIN newData[c].layers |->
                    IF l \in DOMAIN existingComp.layers
                    THEN MergedLayer(existingComp.layers[l],
                                     newData[c].layers[l])
                    ELSE newData[c].layers[l]],
             animatedGravityProperties |->
                newData[c].animatedGravityProperties]
    ELSE newData[c]

fetchLayerDataService(prevCompData, newCompData) ==
    LET newData == NewDataOf(newCompData)
        updatedData == [c \in DOMAIN prevCompData
                                 \ ClearedComps(prevCompData, newData) |->
                           prevCompData[c]]
    IN [c \in DOMAIN updatedData \cup DOMAIN newData |->
           IF c \in DOMAIN newData THEN MergeComp(updatedData, newData, c)
           ELSE updatedData[c]]

FetchInit ==
    /\ RunnerAtRest
    /\ synthesis = None
    /\ decomposition = None
    /\ \E prev \in PanelComps, snapshot \in HostComps :
          projectState = [prevCompData |-> prev, newCompData |-> snapshot,
                          merged |-> FALSE, compData |-> prev]

FetchLayerData ==
    /\ projectState # None
    /\ ~projectState.merged
    /\ \E updated \in {fetchLayerDataService(projectState.compData,
                                             projectState.newCompData)} :
          projectState' = [projectState EXCEPT !.merged = TRUE,
                                               !.compData = updated]
    /\ UNCHANGED runnerVars
    /\ UNCHANGED <<synthesis, decomposition>>

FetchSpec == FetchInit /\ [][FetchLayerData]_vars

\* C29: after the merge, a composition that had layers and arrives in the
\* snapshot with no layers is absent from the compositions state.
C29_EmptyCompositionRemoved ==
    (projectState # None /\ projectState.merged)
      => \A c \in DOMAIN projectState.prevCompData :
            (/\ DOMAIN projectState.prevCompData[c].layers # {}
             /\ c \in DOMAIN projectState.newCompData
             /\ DOMAIN projectState.newCompData[c].layers = {})
               => c \notin DOMAIN projectState.compData

\* ------------------------------------------------------------------------
\* Body synthesis (utils/bodies.ts, createMatterBody)
\* ------------------------------------------------------------------------
\* A synthesized part.
PartOf(kind, size, parts, vertices) ==
    [kind |-> kind, size |-> size, parts |-> parts, vertices |-> vertices]

\* Lengths of the rounded rectangle are in units of 1/RadiusUnit px, so
\* that maxRadius * 0.999 = minDimension * 999 / 2000 is a whole number.
RadiusUnit == 2000
\* radius >= (isWider ? height : width) * 0.4
isPillShape_Strict(radius, shorter) == radius * 10 > shorter * RadiusUnit * 4
isPillShape(radius, shorter) == radius * 10 >= shorter * RadiusUnit * 4

\* The compound of a rounded rectangle: the centre rectangle when it has an
\* extent, then two circles (pill) or four.
roundedRectParts(shape) ==
    LET width == shape.size[1]
        height == shape.size[2]
        minDimension == Min2(width, height)
        radius == Min2(shape.roundness * RadiusUnit, minDimension * 999)
        rectWidth == Max2(0, width * RadiusUnit - 2 * radius)
        rectHeight == Max2(0, height * RadiusUnit - 2 * radius)
        isWider == width > height
        pill == isPillShape(radius, IF isWider THEN height ELSE width)
        circle(at) == PartOf("circle", <<radius, radius>>, <<>>, <<at>>)
    IN (IF rectWidth > 0 /\ rectHeight > 0
        THEN <<PartOf("rectangle", <<rectWidth, rectHeight>>, <<>>, <<>>)>>
        ELSE <<>>)
       \o (IF pill
           THEN IF isWider THEN <<circle("left"), circle("right")>>
                ELSE <<circle("top"), circle("bottom")>>
           ELSE <<circle("topLeft"), circle("topRight"),
                  circle("bottomLeft"), circle("bottomRight")>>)

\* The parts one shape contributes.  A plain rectangle is built whatever
\* its size; a rounded one is one compound part; a path with fewer than
\* three points, or one whose decomposition is empty, contributes nothing,
\* and a text layer's path is not decomposed.
partsOfShape(shape, layerType) ==
    IF shape.type = "rectangle"
    THEN IF shape.roundness = 0
         THEN <<PartOf("rectangle", shape.size, <<>>, <<>>)>>
         ELSE <<PartOf("compound", shape.size, roundedRectParts(shape),
                       <<>>)>>
    ELSE IF Len(shape.points) < 3 THEN <<>>
         ELSE LET convexParts ==
                      IF layerType = "text" THEN <<shape.points>>
                      ELSE decomposeConcaveShape(shape.points)
                  valid == SelectSeq(convexParts,
                                     LAMBDA part : Len(part) >= 3)
              IN [k \in 1..Len(valid) |->
                     PartOf("fromVertices", <<0, 0>>, <<>>, valid[k])]

RECURSIVE partsOfShapes(_, _)
partsOfShapes(shapes, layerType) ==
    IF shapes = <<>> THEN <<>>
    ELSE partsOfShape(Head(shapes), layerType)
         \o partsOfShapes(Tail(shapes), layerType)

\* layerData.isStatic ?? (layerData.startPropertiesValues?.bodyType === 2);
\* layerData.isStatic is <<>> when it is not set.
isStaticOf(layerData) ==
    IF layerData.isStatic # <<>> THEN layerData.isStatic[1]
    ELSE layerData.startPropertiesValues # None
         /\ layerData.startPropertiesValues.bodyType = 2

\* startPropertiesValues?.bodyType === 1 ? false : true || isStatic
staticOption_AlwaysTrue(startPropertiesValues, isStatic) ==
    (IF startPropertiesValues # None /\ startPropertiesValues.bodyType = 1
     THEN FALSE ELSE TRUE) \/ TRUE
staticOption(startPropertiesValues, isStatic) ==
    IF startPropertiesValues # None /\ startPropertiesValues.bodyType = 1
    THEN FALSE
    ELSE (TRUE \/ isStatic)

\* createMatterBody: no body (None) when no part was built; otherwise the
\* compound body, created with the static option and then set static when
\* isStatic.
createMatterBody(layerData, startPropertiesValues) ==
    LET isStatic == isStaticOf(layerData)
        parts == partsOfShapes(layerData.shapeInfo, layerData.type)
        option == staticOption(startPropertiesValues, isStatic)
    IN IF Len(parts) > 0
       THEN [body |-> TRUE, parts |-> parts, isStaticOption |-> option,
             isStaticInitial |-> isStatic, isStatic |-> option \/ isStatic]
       ELSE None

\* The shapes of a layer: plain and rounded rectangles (one of size 0 x 0)
\* and paths of two, three and four (self-intersecting) points.
ShapeOf(type, size, roundness, points) ==
    [type |-> type, size |-> size, roundness |-> roundness, points |-> points]
ShapeSet ==
    LET RectSizes == {<<20, 20>>, <<20, 40>>, <<50, 20>>}
        Roundnesses == {1, 7, 8, 9, 10, 30}
        PathPoints ==
            {<<<<0, 0>>, <<20, 0>>>>,
             <<<<0, 0>>, <<20, 0>>, <<20, 20>>>>,
             <<<<20, 20>>, <<20, 0>>, <<0, 20>>, <<0, 0>>>>}
    IN {ShapeOf("rectangle", size, 0, <<>>) :
           size \in RectSizes \cup {<<0, 0>>}}
       \cup {ShapeOf("rectangle", sr[1], sr[2], <<>>) :
                sr \in RectSizes \X Roundnesses}
       \cup {ShapeOf("path", <<0, 0>>, 0, pts) : pts \in PathPoints}
MaxShapes == 2
ShapeLists == UNION {[1..n -> ShapeSet] : n \in 0..MaxShapes}

\* layerData.startPropertiesValues || { bodyType: 1, ... }
StoredStart(layerData) ==
    IF layerData.startPropertiesValues # None
    THEN layerData.startPropertiesValues
    ELSE [bodyType |-> 1]

SynthInit ==
    /\ RunnerAtRest
    /\ decomposition = None
    /\ projectState = None
    /\ \E shapes \in ShapeLists, type \in {"shape", "text"},
          isStatic \in {<<>>, <<TRUE>>, <<FALSE>>}, start \in {None, [bodyType |-> 1], [bodyType |-> 2]} :
          synthesis = [layerData |-> [type |-> type, shapeInfo |-> shapes,
                                      isStatic |-> isStatic,
                                      startPropertiesValues |-> start],
                       called |-> FALSE, body |-> None]

\* The panel builds the body of a layer: createMatterBody with the layer's
\* start properties, or with the defaults (bodyType 1) when it has none.
CreateMatterBody ==
    /\ synthesis # None
    /\ ~synthesis.called
    /\ \E body \in {createMatterBody(synthesis.layerData,
                                     StoredStart(synthesis.layerData))} :
          synthesis' = [synthesis EXCEPT !.called = TRUE, !.body = body]
    /\ UNCHANGED runnerVars
    /\ UNCHANGED <<decomposition, projectState>>

SynthSpec == SynthInit /\ [][CreateMatterBody]_vars

BodyBuilt == synthesis # None /\ synthesis.called /\ synthesis.body # None
ShapesOf == synthesis.layerData.shapeInfo
ShorterSide(shape) == Min2(shape.size[1], shape.size[2])
IsRounded(shape) == shape.type = "rectangle" /\ shape.roundness # 0
\* The compound part built for the k-th shape of a layer of rounded
\* rectangles.
KindsOf(part) == [k \in 1..Len(part.parts) |-> part.parts[k].kind]

\* C24: a rounded rectangle (of positive width and height) becomes the
\* centre rectangle plus exactly two circles when its corner radius is at
\* least 40% of its shorter side, and the centre rectangle plus four
\* circles otherwise; a roundness of 45% of the shorter side gives the
\* three-part pill.
C24_PillThreshold ==
    (BodyBuilt /\ \A k \in 1..Len(ShapesOf) : IsRounded(ShapesOf[k]))
      => \A k \in 1..Len(ShapesOf) :
            LET shape == ShapesOf[k]
                kinds == KindsOf(synthesis.body.parts[k])
                pill == kinds = <<"rectangle", "circle", "circle">>
                full == kinds = <<"rectangle", "circle", "circle",
                                  "circle", "circle">>
            IN /\ pill \/ full
               /\ pill <=> shape.roundness * 10 >= ShorterSide(shape) * 4
               /\ shape.roundness * 100 = ShorterSide(shape) * 45 => pill
\* A pill at 45% next to a four-circle rectangle just below the threshold.
C24_Witness ==
    /\ BodyBuilt
    /\ Len(ShapesOf) = 2
    /\ ShapesOf[1] = ShapeOf("rectangle", <<20, 40>>, 9, <<>>)
    /\ ShapesOf[2] = ShapeOf("rectangle", <<50, 20>>, 7, <<>>)
    /\ Len(synthesis.body.parts[1].parts) = 3
    /\ Len(synthesis.body.parts[2].parts) = 5

\* C30: the static option of the compound body is false exactly when the
\* start bodyType is 1, and true otherwise, whatever isStatic is.
C30_StaticOption ==
    BodyBuilt =>
       synthesis.body.isStaticOption
          = (StoredStart(synthesis.layerData).bodyType # 1)
\* C30 as stated: the static option is true for every combination of
\* bodyType and isStatic.
C30_AlwaysTrue == BodyBuilt => synthesis.body.isStaticOption
\* A body made for bodyType 1 with isStatic set: the option is false.
C30_Witness ==
    /\ BodyBuilt
    /\ StoredStart(synthesis.layerData).bodyType = 1
    /\ isStaticOf(synthesis.layerData)
    /\ ~synthesis.body.isStaticOption

\* A shape without an extent: a rectangle with a side of 0, a path with
\* fewer than three points.
Degenerate(shape) ==
    IF shape.type = "rectangle"
    THEN shape.size[1] <= 0 \/ shape.size[2] <= 0
    ELSE Len(shape.points) < 3
ValidShapes == SelectSeq(ShapesOf, LAMBDA shape : ~Degenerate(shape))

\* C25: a degenerate shape contributes no part while the other shapes of
\* the layer are built, and createMatterBody returns no body exactly when
\* the layer has no valid shape.
C25_DegenerateSkipped ==
    (synthesis # None /\ synthesis.called)
      => /\ synthesis.body = None <=> ValidShapes = <<>>
         /\ synthesis.body # None =>
               synthesis.body.parts
                  = partsOfShapes(ValidShapes, synthesis.layerData.type)

====
